---- MODULE Spec2Model ----
(***************************************************************************)
(* RecetaGram (src/app.js): the localStorage-backed record store dataSdk,  *)
(* its observers, the configuration store elementSdk, and the app: its     *)
(* session (currentUser, currentPage, selectedChatUser), page navigation   *)
(* and the handlers that change records in place before handing them back  *)
(* to the store.                                                           *)
(*                                                                         *)
(* Specifications: Spec (the store's API), AppSpec (the app and scripts    *)
(* calling the store), PageSpec (every handler of the app, used by the     *)
(* demo user), SnapSpec (a second observer that holds on to the array it   *)
(* was given), CfgSpec (elementSdk, and a page load from each content of   *)
(* the two storage slots).                                                 *)
(*                                                                         *)
(* Further specifications take the seeded store through one part of the   *)
(* app each: LikeSpec (recipes, likes, comments), RegSpec (registration),  *)
(* FriendSpec (friendships), DelSpec (deleteRecipe with any id), ValidSpec *)
(* (blank and duplicate input), ImageSpec (submissions that wait for       *)
(* readAndResizeImage while the session changes), FullSpec (store calls    *)
(* during which localStorage.setItem throws), LoginSpec (the login form    *)
(* with plain and padded input), ProfileSpec (profile edits with and       *)
(* without a photo file), ReloadSpec (the store's API with the page        *)
(* loaded again at any moment).  ThemeSpec is the page of the revision     *)
(* src/unnamed/part_000, whose initApp ends with loadTheme() and which has *)
(* a theme toggle button; src/app.js has no theme.                         *)
(*                                                                         *)
(* `rendered`, `toast`, `delivered` and `applied` log what the last step   *)
(* did: the render routines it ran and who called them, the toast shown,   *)
(* the observer and callback calls.  A page load whose script throws       *)
(* (JSON.parse outside try/catch) would leave call.by = "crash": no        *)
(* handler is registered then.                                             *)
(*                                                                         *)
(* Objects have identity: a record lives in `heap` under an address, and   *)
(* the store's array, the observers' snapshots and the app's currentUser   *)
(* hold addresses.  JSON.stringify turns the array of addresses into an    *)
(* array of record values (identity is lost), which is what the storage    *)
(* slot holds.  Every async function of the store has no await in its      *)
(* body, so a call runs to its return in one step.  Observers follow the    *)
(* callback contract: onDataChanged returns normally and calls no store     *)
(* operation (dataHandler does neither).                                    *)
(*                                                                         *)
(* Record fields that no code path reads or writes after creation          *)
(* (description, ingredients, steps, image, timestamp) are represented by  *)
(* recipeTitle alone.  The comma-joined likedBy string is held as the list *)
(* of its non-empty segments, the JSON text of comments as the list of     *)
(* comments.                                                               *)
(***************************************************************************)
EXTENDS Integers, Sequences, FiniteSets, TLC

VARIABLES
  heap,         \* address -> record: the JS objects that are still referenced
  data,         \* dataSdk's array `data`: addresses, in order
  subscribers,  \* dataSdk's array `subscribers`: handlers, in registration order
  storage,      \* localStorage slot "recetagram_data"
  delivered,    \* onDataChanged calls made during the last call, in order
  result,       \* what the last store call returned
  call,         \* the last call: store operation, caller, argument
  allData,      \* app: the cached snapshot
  currentUser,  \* app: address of the logged-in user record, 0 for null
  currentPage,  \* app: the page shown
  selectedChatUser,  \* app: address of the chat partner's record, 0 for null
  rendered,     \* render routines run during the last step, in order
  toast,        \* message of the showToast call of the last step, "" for none
  held,         \* <<s>> once the observer "keeper" holds the first snapshot s it got
  config,       \* elementSdk's `config`
  cfgStorage,   \* localStorage slot "recetagram_config"
  onConfigChangeCb,  \* elementSdk's stored callback, "null" for none
  applied,      \* configurations passed to the callback during the last step
  pending,      \* form submissions waiting for readAndResizeImage to settle
  buttons,      \* the submit buttons of the two forms: disabled, textContent
  elementSdkConfig,  \* the property `config` of the object window.elementSdk
  dark,         \* part_000: document.body has the class "dark"
  themeStorage  \* part_000: localStorage slot "recetagram_theme"

vars == <<heap, data, subscribers, storage, delivered, result, call,
          allData, currentUser, currentPage, selectedChatUser, rendered, toast,
          held, config, cfgStorage, onConfigChangeCb, applied, pending, buttons,
          elementSdkConfig, dark, themeStorage>>

-----------------------------------------------------------------------------
(* Bounds *)

MaxLen == 5        \* create is not called on a collection of this many records
MaxComments == 2   \* addComment is not called on a recipe with this many comments
MaxNew == 1        \* generateId is not called while this many generated ids are in use

-----------------------------------------------------------------------------
(* Values *)

Undefined == "undefined"

Range(s) == {s[i] : i \in 1..Len(s)}

\* obj.f, with undefined for a missing property
Str(r, f) == IF f \in DOMAIN r THEN r[f] ELSE Undefined

\* obj.f = v on a copy of the record value (adds the property when missing)
Put(r, f, v) == [g \in DOMAIN r \cup {f} |-> IF g = f THEN v ELSE r[g]]

\* new object: the lowest address not in use
NewAddr(hp) ==
  CHOOSE a \in 1..(Cardinality(DOMAIN hp) + 1) :
    a \notin DOMAIN hp /\ \A b \in 1..(a - 1) : b \in DOMAIN hp

\* the seed records of seedIfEmpty
u1 == [id |-> "u_demo", type |-> "user", username |-> "demo", password |-> "demo",
       fullName |-> "Cuenta Demo", bio |-> "Amante de la cocina", profilePhoto |-> ""]
u2 == [id |-> "u_ana", type |-> "user", username |-> "ana", password |-> "ana",
       fullName |-> "Ana Chef", bio |-> "Pasta lover", profilePhoto |-> ""]
f1 == [id |-> "f1", type |-> "friendship", requesterId |-> "u_demo",
       receiverId |-> "u_ana", status |-> "accepted"]
r1 == [id |-> "r1", type |-> "recipe", recipeTitle |-> "Tostada de aguacate",
       authorId |-> "u_ana", authorName |-> "ana", likes |-> 1,
       likedBy |-> <<"u_demo">>,
       comments |-> <<[author |-> "demo", text |-> "Brutal"]>>]

\* records a caller of the public API passes to create and update
ApiUser == [id |-> "u1", username |-> "demo"]
ApiClash == [id |-> "r1", type |-> "user", username |-> "r1", password |-> "r1",
             fullName |-> "Receta Uno"]
ApiRecords == {ApiUser, ApiClash}

ApiIds == {"u_demo", "r1", "u1"}

\* handlers passed to dataSdk.init: the app's dataHandler, another observer,
\* an object without onDataChanged, and null
Handlers == {"dataHandler", "h1", "bare", "null"}
HasCallback(h) == h \in {"dataHandler", "h1", "keeper"}

NoResult == [isOk |-> TRUE, error |-> "", data |-> 0]

-----------------------------------------------------------------------------
(* dataSdk *)

\* localStorage.setItem(STORAGE_KEY, JSON.stringify(data))
save(d, hp) == [kind |-> "json", value |-> [i \in 1..Len(d) |-> hp[d[i]]]]

\* JSON.parse(localStorage.getItem(key) || fallback): getItem gives null for a
\* missing slot, and JSON.parse throws on text that is not JSON
JSONparse(slot) ==
  IF slot.kind = "missing" THEN [threw |-> FALSE, value |-> <<>>]
  ELSE IF slot.kind = "garbage" THEN [threw |-> TRUE, value |-> <<>>]
  ELSE [threw |-> FALSE, value |-> slot.value]

\* faulty variant of load: no try/catch around JSON.parse
loadNoCatch(slot) ==
  [threw |-> JSONparse(slot).threw, data |-> JSONparse(slot).value]

\* load(): try { data = JSON.parse(...) } catch { data = [] }; threw says
\* whether an exception leaves the function
load(slot) ==
  IF JSONparse(slot).threw THEN [threw |-> FALSE, data |-> <<>>]
  ELSE [threw |-> FALSE, data |-> JSONparse(slot).value]

\* faulty variant of notify: the observers are called last-registered first
notifyReversed(subs, d) ==
  LET cbs == SelectSeq(subs, HasCallback)
  IN  [i \in 1..Len(cbs) |-> [h |-> cbs[Len(cbs) + 1 - i], snap |-> d, ref |-> i]]

\* subscribers.forEach(h => h?.onDataChanged && h.onDataChanged([...data])):
\* ref numbers the arrays made by the spread; the store's own array is ref 0
notify(subs, d) ==
  LET cbs == SelectSeq(subs, HasCallback)
  IN  [i \in 1..Len(cbs) |-> [h |-> cbs[i], snap |-> d, ref |-> i]]

\* data.findIndex(x => x.id === id), 0 for -1
findIndex(d, hp, id) ==
  IF \E i \in 1..Len(d) : Str(hp[d[i]], "id") = id
  THEN CHOOSE i \in 1..Len(d) :
         /\ Str(hp[d[i]], "id") = id
         /\ \A j \in 1..(i - 1) : Str(hp[d[j]], "id") # id
  ELSE 0

\* data.filter(x => x.id !== id)
filterOut(d, hp, id) == SelectSeq(d, LAMBDA a : Str(hp[a], "id") # id)

\* faulty variant of init: the handler is pushed without the includes() test
initAlways(S, h) ==
  LET subs == IF h # "null" THEN Append(S.subscribers, h) ELSE S.subscribers
  IN  [data |-> S.data, storage |-> S.storage, subscribers |-> subs,
       delivered |-> notify(subs, S.data),
       result |-> [isOk |-> TRUE, error |-> "", data |-> 0]]

\* faulty variant of init: notify() runs before the handler is pushed
initNotifyFirst(S, h) ==
  LET subs == IF h # "null" /\ h \notin Range(S.subscribers)
              THEN Append(S.subscribers, h) ELSE S.subscribers
  IN  [data |-> S.data, storage |-> S.storage, subscribers |-> subs,
       delivered |-> notify(S.subscribers, S.data),
       result |-> [isOk |-> TRUE, error |-> "", data |-> 0]]

init(S, h) ==
  LET subs == IF h # "null" /\ h \notin Range(S.subscribers)
              THEN Append(S.subscribers, h) ELSE S.subscribers
  IN  [data |-> S.data, storage |-> S.storage, subscribers |-> subs,
       delivered |-> notify(subs, S.data),
       result |-> [isOk |-> TRUE, error |-> "", data |-> 0]]

\* faulty variant of create: a record whose id is taken is refused
createUnique(S, hp, a) ==
  LET d == Append(S.data, a)
  IN  IF findIndex(S.data, hp, Str(hp[a], "id")) # 0
      THEN [data |-> S.data, storage |-> S.storage, subscribers |-> S.subscribers,
            delivered |-> <<>>,
            result |-> [isOk |-> FALSE, error |-> "duplicate", data |-> 0]]
      ELSE [data |-> d, storage |-> save(d, hp), subscribers |-> S.subscribers,
            delivered |-> notify(S.subscribers, d),
            result |-> [isOk |-> TRUE, error |-> "", data |-> a]]

\* faulty variant of create: data.unshift(obj)
createFront(S, hp, a) ==
  LET d == <<a>> \o S.data
  IN  [data |-> d, storage |-> save(d, hp), subscribers |-> S.subscribers,
       delivered |-> notify(S.subscribers, d),
       result |-> [isOk |-> TRUE, error |-> "", data |-> a]]

create(S, hp, a) ==
  LET d == Append(S.data, a)
  IN  [data |-> d, storage |-> save(d, hp), subscribers |-> S.subscribers,
       delivered |-> notify(S.subscribers, d),
       result |-> [isOk |-> TRUE, error |-> "", data |-> a]]

\* faulty variant of update: a missing record is inserted
updateOrInsert(S, hp, a) ==
  LET i == findIndex(S.data, hp, Str(hp[a], "id"))
      d == IF i = 0 THEN Append(S.data, a) ELSE [S.data EXCEPT ![i] = a]
  IN  [data |-> d, storage |-> save(d, hp), subscribers |-> S.subscribers,
       delivered |-> notify(S.subscribers, d),
       result |-> [isOk |-> TRUE, error |-> "", data |-> 0]]

\* faulty variant of update: save() is left out
updateUnsaved(S, hp, a) ==
  LET i == findIndex(S.data, hp, Str(hp[a], "id"))
      d == [S.data EXCEPT ![i] = a]
  IN  IF i = 0
      THEN [data |-> S.data, storage |-> S.storage, subscribers |-> S.subscribers,
            delivered |-> <<>>,
            result |-> [isOk |-> FALSE, error |-> "not_found", data |-> 0]]
      ELSE [data |-> d, storage |-> S.storage, subscribers |-> S.subscribers,
            delivered |-> notify(S.subscribers, d),
            result |-> [isOk |-> TRUE, error |-> "", data |-> 0]]

\* faulty variant of update: the old record is filtered out and the new one pushed
updateMove(S, hp, a) ==
  LET i == findIndex(S.data, hp, Str(hp[a], "id"))
      d == SubSeq(S.data, 1, i - 1) \o SubSeq(S.data, i + 1, Len(S.data)) \o <<a>>
  IN  IF i = 0
      THEN [data |-> S.data, storage |-> S.storage, subscribers |-> S.subscribers,
            delivered |-> <<>>,
            result |-> [isOk |-> FALSE, error |-> "not_found", data |-> 0]]
      ELSE [data |-> d, storage |-> save(d, hp), subscribers |-> S.subscribers,
            delivered |-> notify(S.subscribers, d),
            result |-> [isOk |-> TRUE, error |-> "", data |-> 0]]

update(S, hp, a) ==
  LET i == findIndex(S.data, hp, Str(hp[a], "id"))
      d == [S.data EXCEPT ![i] = a]
  IN  IF i = 0
      THEN [data |-> S.data, storage |-> S.storage, subscribers |-> S.subscribers,
            delivered |-> <<>>,
            result |-> [isOk |-> FALSE, error |-> "not_found", data |-> 0]]
      ELSE [data |-> d, storage |-> save(d, hp), subscribers |-> S.subscribers,
            delivered |-> notify(S.subscribers, d),
            result |-> [isOk |-> TRUE, error |-> "", data |-> 0]]

\* faulty variant of delete: observers are told only when a record was removed
deleteQuiet(S, hp, id) ==
  LET d == filterOut(S.data, hp, id)
  IN  [data |-> d, storage |-> save(d, hp), subscribers |-> S.subscribers,
       delivered |-> IF Len(d) # Len(S.data) THEN notify(S.subscribers, d) ELSE <<>>,
       result |-> [isOk |-> Len(d) # Len(S.data), error |-> "", data |-> 0]]

\* faulty variant of delete: only the first record with the id is removed
deleteFirst(S, hp, id) ==
  LET i == findIndex(S.data, hp, id)
      d == IF i = 0 THEN S.data
           ELSE SubSeq(S.data, 1, i - 1) \o SubSeq(S.data, i + 1, Len(S.data))
  IN  [data |-> d, storage |-> save(d, hp), subscribers |-> S.subscribers,
       delivered |-> notify(S.subscribers, d),
       result |-> [isOk |-> Len(d) # Len(S.data), error |-> "", data |-> 0]]

delete(S, hp, id) ==
  LET d == filterOut(S.data, hp, id)
  IN  [data |-> d, storage |-> save(d, hp), subscribers |-> S.subscribers,
       delivered |-> notify(S.subscribers, d),
       result |-> [isOk |-> Len(d) # Len(S.data), error |-> "", data |-> 0]]

\* faulty variant of reset: save() is left out
resetUnsaved(S, hp) ==
  [data |-> <<>>, storage |-> S.storage, subscribers |-> S.subscribers,
   delivered |-> notify(S.subscribers, <<>>),
   result |-> [isOk |-> TRUE, error |-> "", data |-> 0]]

reset(S, hp) ==
  [data |-> <<>>, storage |-> save(<<>>, hp), subscribers |-> S.subscribers,
   delivered |-> notify(S.subscribers, <<>>),
   result |-> [isOk |-> TRUE, error |-> "", data |-> 0]]

-----------------------------------------------------------------------------
(* dataSdk when localStorage.setItem throws (the quota is used up): save()
   has no try/catch, so the exception leaves the async function after the
   assignment to data and before notify(), and the promise is rejected *)

\* a rejected promise, written as a result
Rejected == [isOk |-> FALSE, error |-> "QuotaExceededError", data |-> 0]

createSaveThrows(S, hp, a) ==
  [data |-> Append(S.data, a), storage |-> S.storage, subscribers |-> S.subscribers,
   delivered |-> <<>>, result |-> Rejected]

updateSaveThrows(S, hp, a) ==
  LET i == findIndex(S.data, hp, Str(hp[a], "id"))
  IN  IF i = 0
      THEN [data |-> S.data, storage |-> S.storage, subscribers |-> S.subscribers,
            delivered |-> <<>>,
            result |-> [isOk |-> FALSE, error |-> "not_found", data |-> 0]]
      ELSE [data |-> [S.data EXCEPT ![i] = a], storage |-> S.storage,
            subscribers |-> S.subscribers, delivered |-> <<>>, result |-> Rejected]

deleteSaveThrows(S, hp, id) ==
  [data |-> filterOut(S.data, hp, id), storage |-> S.storage,
   subscribers |-> S.subscribers, delivered |-> <<>>, result |-> Rejected]

resetSaveThrows(S, hp) ==
  [data |-> <<>>, storage |-> S.storage, subscribers |-> S.subscribers,
   delivered |-> <<>>, result |-> Rejected]

-----------------------------------------------------------------------------
(* elementSdk *)

\* { ...a, ...b }: the keys of both, b's value where both have the key
Merge(a, b) == [k \in DOMAIN a \cup DOMAIN b |-> IF k \in DOMAIN b THEN b[k] ELSE a[k]]

\* localStorage.setItem(CFG_KEY, JSON.stringify(config))
saveCfg(cfg) == [kind |-> "json", value |-> cfg]

\* loadCfg(): try { config = JSON.parse(...) } catch { config = {} }
loadCfg(slot) ==
  IF JSONparse(slot).threw THEN [threw |-> FALSE, config |-> <<>>]
  ELSE [threw |-> FALSE, config |-> JSONparse(slot).value]

\* if (onConfigChangeCb) onConfigChangeCb(config)
applyChange(cb, cfg) == IF cb # "null" THEN <<[cb |-> cb, config |-> cfg]>> ELSE <<>>

Element == [config |-> config, cfgStorage |-> cfgStorage,
            onConfigChangeCb |-> onConfigChangeCb]

\* faulty variant of elementInit: the defaults override what was saved
elementInitDefaultsWin(E, defaults, cb) ==
  LET cfg == Merge(E.config, defaults)
  IN  [config |-> cfg, cfgStorage |-> saveCfg(cfg), onConfigChangeCb |-> cb,
       applied |-> applyChange(cb, cfg)]

\* elementSdk.init({ defaultConfig, onConfigChange })
elementInit(E, defaults, cb) ==
  LET cfg == Merge(defaults, E.config)
  IN  [config |-> cfg, cfgStorage |-> saveCfg(cfg), onConfigChangeCb |-> cb,
       applied |-> applyChange(cb, cfg)]

\* faulty variant of setConfig: the configuration becomes the partial alone
setConfigReplace(E, partial) ==
  [config |-> partial, cfgStorage |-> saveCfg(partial),
   onConfigChangeCb |-> E.onConfigChangeCb,
   applied |-> applyChange(E.onConfigChangeCb, partial)]

\* elementSdk.setConfig(partial)
setConfig(E, partial) ==
  LET cfg == Merge(E.config, partial)
  IN  [config |-> cfg, cfgStorage |-> saveCfg(cfg),
       onConfigChangeCb |-> E.onConfigChangeCb,
       applied |-> applyChange(E.onConfigChangeCb, cfg)]

\* the step calls no elementSdk operation
elementIdle ==
  /\ UNCHANGED <<config, cfgStorage, onConfigChangeCb, elementSdkConfig>>
  /\ applied' = <<>>

\* the step does not call applyTheme
themeIdle == UNCHANGED <<dark, themeStorage>>

\* the step calls no elementSdk operation and does not touch the theme
cfgIdle == elementIdle /\ themeIdle

\* the step ends with the elementSdk state e; init and setConfig assign the
\* closure variable `config` and never the property of window.elementSdk
cfgDone(e) ==
  /\ UNCHANGED elementSdkConfig
  /\ config' = e.config
  /\ cfgStorage' = e.cfgStorage
  /\ onConfigChangeCb' = e.onConfigChangeCb
  /\ applied' = e.applied

\* the app's defaultConfig: of its fourteen entries, one text and one number
defaultConfig == [app_title |-> "RecetaGram", font_size |-> 14]

-----------------------------------------------------------------------------
(* app: observer and read helpers *)

\* dataHandler.onDataChanged: allData = data (the renders change no state)
onDataChanged(deliv, ad) ==
  LET mine == {i \in 1..Len(deliv) : deliv[i].h = "dataHandler"}
  IN  IF mine = {} THEN ad
      ELSE deliv[CHOOSE i \in mine : \A j \in mine : j <= i].snap

\* a render routine run by the observer (by "onDataChanged") or by a handler
Render(by, routine) == [by |-> by, routine |-> routine]

\* faulty variant of onDataChangedRenders: on the messages page the open chat
\* is not rendered again
onDataChangedRendersNoChat(deliv, page, sel) ==
  LET mine == SelectSeq(deliv, LAMBDA x : x.h = "dataHandler")
      one == IF page = "timeline" THEN <<Render("onDataChanged", "renderTimeline")>>
             ELSE IF page = "profile" THEN <<Render("onDataChanged", "renderProfile")>>
             ELSE IF page = "search" THEN <<Render("onDataChanged", "renderSearchResults")>>
             ELSE IF page = "messages"
                  THEN <<Render("onDataChanged", "renderConversations")>>
             ELSE <<>>
  IN  [i \in 1..(Len(mine) * Len(one)) |-> one[((i - 1) % Len(one)) + 1]]

\* dataHandler.onDataChanged: the dispatch on currentPage, once for each call
\* of the observer
onDataChangedRenders(deliv, page, sel) ==
  LET mine == SelectSeq(deliv, LAMBDA x : x.h = "dataHandler")
      one == IF page = "timeline" THEN <<Render("onDataChanged", "renderTimeline")>>
             ELSE IF page = "profile" THEN <<Render("onDataChanged", "renderProfile")>>
             ELSE IF page = "search" THEN <<Render("onDataChanged", "renderSearchResults")>>
             ELSE IF page = "messages"
                  THEN <<Render("onDataChanged", "renderConversations")>>
                       \o (IF sel # 0 THEN <<Render("onDataChanged", "renderChat")>>
                           ELSE <<>>)
             ELSE <<>>
  IN  [i \in 1..(Len(mine) * Len(one)) |-> one[((i - 1) % Len(one)) + 1]]

\* the observer "keeper" holds on to the first array it is given
keep(deliv, kp) ==
  LET mine == SelectSeq(deliv, LAMBDA x : x.h = "keeper")
  IN  IF kp = <<>> /\ Len(mine) > 0 THEN <<mine[1].snap>> ELSE kp

\* allData.filter(item => item.type === t)
ofType(ad, hp, t) == SelectSeq(ad, LAMBDA a : Str(hp[a], "type") = t)

getUsers(ad, hp) == ofType(ad, hp, "user")
getRecipes(ad, hp) == ofType(ad, hp, "recipe")
getFriendships(ad, hp) == ofType(ad, hp, "friendship")

\* ids of getUserFriends(userId)
getUserFriends(ad, hp, userId) ==
  LET fs == {a \in Range(getFriendships(ad, hp)) :
               /\ Str(hp[a], "status") = "accepted"
               /\ (Str(hp[a], "requesterId") = userId \/ Str(hp[a], "receiverId") = userId)}
      friendIds == {IF Str(hp[a], "requesterId") = userId
                    THEN Str(hp[a], "receiverId") ELSE Str(hp[a], "requesterId") : a \in fs}
  IN  {Str(hp[a], "id") : a \in {b \in Range(getUsers(ad, hp)) : Str(hp[b], "id") \in friendIds}}

\* arr.find(pred): the first address of s that is in the set ok, 0 for undefined
find(s, ok) ==
  IF \E i \in 1..Len(s) : s[i] \in ok
  THEN s[CHOOSE i \in 1..Len(s) : s[i] \in ok /\ \A j \in 1..(i - 1) : s[j] \notin ok]
  ELSE 0

\* ids of the recipes whose buttons the current page shows
\* (renderTimeline: friends' and own recipes; renderProfile: own recipes)
shownRecipes(ad, hp, cu, page) ==
  IF cu = 0 THEN {}
  ELSE LET me == Str(hp[cu], "id")
           authors == IF page = "timeline" THEN getUserFriends(ad, hp, me) \cup {me}
                      ELSE IF page = "profile" THEN {me} ELSE {}
       IN  {Str(hp[a], "id") : a \in {b \in Range(getRecipes(ad, hp)) :
                                        Str(hp[b], "authorId") \in authors}}

Store == [data |-> data, storage |-> storage, subscribers |-> subscribers]

\* what a handler that calls no store operation leaves behind
noCall(S) ==
  [data |-> S.data, storage |-> S.storage, subscribers |-> S.subscribers,
   delivered |-> <<>>, result |-> NoResult]

\* the objects of the sequence L numbered in the order L reaches them
RankOf(L) ==
  [a \in Range(L) |->
     Cardinality({L[j] : j \in 1..(CHOOSE k \in 1..Len(L) :
                                     L[k] = a /\ \A i \in 1..(k - 1) : L[i] # a)})]

\* The end of a step.  r0 is what the store call produced, hp0 the heap with
\* the objects the handler made or changed, ses the app's session after the
\* handler, with the toast it showed and the render routines it ran itself.
\* The observers run (allData, the renders of the page shown when the store
\* notified, the keeper's array), objects no longer referenced are dropped,
\* and the rest are numbered in the order data, allData, currentUser,
\* selectedChatUser, the keeper's array reach them: an address is an identity,
\* not a value.
Session(cu, page, sel, msg, renders) ==
  [cu |-> cu, page |-> page, sel |-> sel, toast |-> msg, renders |-> renders]

\* the session ses of a handler that also leaves these submissions waiting
\* and the submit buttons so
Forms(ses, pend, btns) == Put(Put(ses, "pending", pend), "buttons", btns)

\* a submit button as its handler leaves it when done, and while it waits
Ready(label) == [disabled |-> FALSE, text |-> label]
Busy(label) == [disabled |-> TRUE, text |-> label]
ReadyButtons == [submitRecipeBtn |-> Ready("Publicar Receta"),
                 submitEditProfileBtn |-> Ready("Guardar Cambios")]

FinishUI(r0, hp0, c, ses) ==
  /\ call.by # "crash"
  /\ \E r \in {r0}, hp \in {hp0} :
     \E ad \in {onDataChanged(r.delivered, allData)}, kp \in {keep(r.delivered, held)} :
     \E RK \in {RankOf(r.data \o ad \o (IF ses.cu = 0 THEN <<>> ELSE <<ses.cu>>)
                         \o (IF ses.sel = 0 THEN <<>> ELSE <<ses.sel>>)
                         \o (IF kp = <<>> THEN <<>> ELSE kp[1]))} :
       /\ heap' = [n \in 1..Cardinality(DOMAIN RK) |-> hp[CHOOSE a \in DOMAIN RK : RK[a] = n]]
       /\ data' = [i \in 1..Len(r.data) |-> RK[r.data[i]]]
       /\ storage' = r.storage
       /\ subscribers' = r.subscribers
       /\ delivered' = [i \in 1..Len(r.delivered) |->
                          [r.delivered[i] EXCEPT
                             !.snap = [k \in 1..Len(r.data) |-> RK[r.data[k]]]]]
       /\ result' = [r.result EXCEPT !.data = IF @ = 0 THEN 0 ELSE RK[@]]
       /\ call' = c
       /\ allData' = [i \in 1..Len(ad) |-> RK[ad[i]]]
       /\ currentUser' = IF ses.cu = 0 THEN 0 ELSE RK[ses.cu]
       /\ currentPage' = ses.page
       /\ selectedChatUser' = IF ses.sel = 0 THEN 0 ELSE RK[ses.sel]
       /\ rendered' = onDataChangedRenders(r.delivered, currentPage, selectedChatUser)
                         \o ses.renders
       /\ toast' = ses.toast
       /\ held' = IF kp = <<>> THEN <<>> ELSE <<[i \in 1..Len(kp[1]) |-> RK[kp[1][i]]]>>
       /\ pending' = IF "pending" \in DOMAIN ses THEN ses.pending ELSE pending
       /\ buttons' = IF "buttons" \in DOMAIN ses THEN ses.buttons ELSE buttons

\* the end of a step of a script that is not the app: a store call, no
\* elementSdk call
Finish(r0, hp0, c, cu, page) ==
  /\ FinishUI(r0, hp0, c, Session(cu, page, selectedChatUser, "", <<>>))
  /\ cfgIdle

\* arg is the record passed to create and update, [id |-> x] for delete(x) and
\* init(x)
Call(op, by, arg) == [op |-> op, by |-> by, arg |-> arg]
NoArg == [id |-> ""]

-----------------------------------------------------------------------------
(* Initial state: the store's script has run load() and seedIfEmpty() *)

InitialSlots ==
  { [kind |-> "missing", value |-> <<>>],
    [kind |-> "garbage", value |-> <<>>],
    [kind |-> "json", value |-> <<>>],
    [kind |-> "json", value |-> <<ApiUser>>] }

Seed == <<u1, u2, f1, r1>>

\* what the slot "recetagram_config" may hold when the page loads: nothing,
\* text that is not JSON, or a mapping saved earlier (with a key the app's
\* defaults do not have)
InitialCfgSlots ==
  { [kind |-> "missing", value |-> <<>>],
    [kind |-> "garbage", value |-> <<>>],
    [kind |-> "json", value |-> <<>>],
    [kind |-> "json", value |-> [font_size |-> 18]],
    [kind |-> "json", value |-> [font_size |-> 18, extra |-> "x"]] }

\* the state after the script has run on the slots slot and cslot: load(),
\* seedIfEmpty(), loadCfg() and the app's declarations.  An exception that
\* leaves load() or loadCfg() ends the script there: nothing after it is
\* defined or registered, and nothing of the page runs (call.by = "crash").
Loaded(slot, cslot) ==
  LET ld == load(slot)
      lc == loadCfg(cslot)
      recs == IF ld.threw THEN <<>> ELSE IF Len(ld.data) > 0 THEN ld.data ELSE Seed
      d == [i \in 1..Len(recs) |-> i]
      hp == [a \in 1..Len(recs) |-> recs[a]]
  IN  /\ heap = hp
      /\ data = d
      /\ storage = IF ld.threw \/ Len(ld.data) > 0 THEN slot ELSE save(d, hp)
      /\ subscribers = <<>>
      /\ delivered = <<>>
      /\ result = NoResult
      /\ call = Call("none", IF ld.threw \/ lc.threw THEN "crash" ELSE "load",
                     [id |-> slot.kind, cfg |-> cslot.kind])
      /\ allData = <<>>
      /\ currentUser = 0
      /\ currentPage = "auth"
      /\ selectedChatUser = 0
      /\ rendered = <<>>
      /\ toast = ""
      /\ held = <<>>
      /\ config = IF ld.threw \/ lc.threw THEN <<>> ELSE lc.config
      /\ cfgStorage = cslot
      /\ onConfigChangeCb = "null"
      /\ applied = <<>>
      /\ pending = {}
      /\ buttons = ReadyButtons
      /\ elementSdkConfig = IF ld.threw \/ lc.threw THEN <<>> ELSE lc.config
      /\ dark = FALSE
      /\ themeStorage = [kind |-> "missing", value |-> ""]

\* the page loads with no preference saved
Init == \E slot \in InitialSlots : Loaded(slot, [kind |-> "missing", value |-> <<>>])

\* faulty variant of seedIfEmpty: the demo records are not saved
seedIfEmptyNoSave(recs, slot) ==
  IF Len(recs) > 0 THEN [data |-> recs, storage |-> slot]
  ELSE [data |-> Seed, storage |-> slot]

\* seedIfEmpty() on the loaded records recs: if (data.length > 0) return;
\* data.push(u1, u2, f1, r1); save()
seedIfEmpty(recs, slot) ==
  IF Len(recs) > 0 THEN [data |-> recs, storage |-> slot]
  ELSE [data |-> Seed, storage |-> [kind |-> "json", value |-> Seed]]

\* the page is loaded again: every object and variable of the old page is
\* gone, the script runs on what the two slots hold now (as in Loaded)
pageReload ==
  /\ call.by # "crash"
  /\ \E ld \in {load(storage)}, lc \in {loadCfg(cfgStorage)} :
     \E sd \in {seedIfEmpty(ld.data, storage)} :
       /\ heap' = [a \in 1..Len(sd.data) |-> sd.data[a]]
       /\ data' = [i \in 1..Len(sd.data) |-> i]
       /\ storage' = sd.storage
       /\ subscribers' = <<>>
       /\ delivered' = <<>>
       /\ result' = NoResult
       /\ call' = Call("none", "reload", [id |-> storage.kind, cfg |-> cfgStorage.kind,
                                         loaded |-> Len(ld.data)])
       /\ allData' = <<>>
       /\ currentUser' = 0
       /\ currentPage' = "auth"
       /\ selectedChatUser' = 0
       /\ rendered' = <<>>
       /\ toast' = ""
       /\ held' = <<>>
       /\ config' = lc.config
       /\ cfgStorage' = cfgStorage
       /\ onConfigChangeCb' = "null"
       /\ applied' = <<>>
       /\ pending' = {}
       /\ buttons' = ReadyButtons
       /\ elementSdkConfig' = lc.config
       /\ dark' = FALSE
       /\ themeStorage' = themeStorage

-----------------------------------------------------------------------------
(* Calls of the public API window.dataSdk by any script of the page *)

\* a new object holding obj
New(obj) ==
  LET a == NewAddr(heap)
  IN  [b \in DOMAIN heap \cup {a} |-> IF b = a THEN obj ELSE heap[b]]

DataSdkInit(h) ==
  /\ h \in Handlers
  /\ Finish(init(Store, h), heap, Call("init", "api", [id |-> h]), currentUser, currentPage)

DataSdkCreate(obj) ==
  /\ Len(data) < MaxLen
  /\ Finish(create(Store, New(obj), NewAddr(heap)), New(obj),
            Call("create", "api", obj), currentUser, currentPage)

DataSdkUpdate(obj) ==
  /\ obj \in ApiRecords
  /\ Finish(update(Store, New(obj), NewAddr(heap)), New(obj),
            Call("update", "api", obj), currentUser, currentPage)

DataSdkDelete(id) ==
  /\ id \in ApiIds \cup {"f1"}
  /\ Finish(delete(Store, heap, id), heap, Call("delete", "api", [id |-> id]), currentUser, currentPage)

DataSdkReset ==
  /\ TRUE
  /\ Finish(reset(Store, heap), heap, Call("reset", "api", NoArg), currentUser, currentPage)

-----------------------------------------------------------------------------
(* App handlers; the UI is live once initApp has registered dataHandler *)

AppStarted == "dataHandler" \in Range(subscribers)

Usernames == {"demo", "ana"}
Passwords == {"demo", "ana"}
Pages == {"timeline", "profile", "search", "messages"}

\* the call of a handler that changed the record `was` in place into arg
\* before handing it to the store
CallOn(op, by, arg, was) == [op |-> op, by |-> by, arg |-> arg, was |-> was]

\* faulty variant of showPageRenders: the dispatch has no branch for messages
showPageRendersNoMessages(pageName) ==
  IF pageName = "timeline" THEN <<Render("showPage", "renderTimeline")>>
  ELSE IF pageName = "profile" THEN <<Render("showPage", "renderProfile")>>
  ELSE IF pageName = "search" THEN <<Render("showPage", "renderSearchResults")>>
  ELSE <<>>

\* showPage: the render routine of the page entered, none for auth
showPageRenders(pageName) ==
  IF pageName = "timeline" THEN <<Render("showPage", "renderTimeline")>>
  ELSE IF pageName = "profile" THEN <<Render("showPage", "renderProfile")>>
  ELSE IF pageName = "search" THEN <<Render("showPage", "renderSearchResults")>>
  ELSE IF pageName = "messages" THEN <<Render("showPage", "renderConversations")>>
  ELSE <<>>

\* generateId(): an id no object has
GenIds == [k \in 1..MaxNew |-> "g" \o ToString(k)]
IdsOf(hp) == {Str(hp[a], "id") : a \in DOMAIN hp}
CanGenerate(hp) == \E k \in 1..Len(GenIds) : GenIds[k] \notin IdsOf(hp)
generateId(hp) ==
  GenIds[CHOOSE k \in 1..Len(GenIds) :
           GenIds[k] \notin IdsOf(hp) /\ \A j \in 1..(k - 1) : GenIds[j] \in IdsOf(hp)]

\* what a text input may hold: a text, or the text between two blanks
Padded(c) == " " \o c \o " "
TrimCores == {"demo", "eva", "", "rico", "hola"}

\* String.prototype.trim on these inputs
trim(s) ==
  IF \E c \in TrimCores : s = Padded(c) THEN CHOOSE c \in TrimCores : s = Padded(c) ELSE s

\* faulty variant of loginSubmit: the password is not compared
loginSubmitAnyPassword(rawUsername, password) ==
  /\ AppStarted /\ currentPage = "auth"
  /\ \E username \in {trim(rawUsername)} :
     LET ok == {a \in Range(getUsers(allData, heap)) :
                  Str(heap[a], "username") = username}
         user == find(getUsers(allData, heap), ok)
     IN  FinishUI(noCall(Store), heap,
                  Call("none", "login",
                       [id |-> "", username |-> rawUsername, password |-> password]),
                  IF user # 0
                  THEN Session(user, "timeline", selectedChatUser, "Bienvenido de nuevo",
                               showPageRenders("timeline"))
                  ELSE Session(currentUser, currentPage, selectedChatUser,
                               "Usuario o contrasena incorrectos", <<>>))
  /\ cfgIdle

\* loginForm submit; the username is trimmed, the password is not
loginSubmit(rawUsername, password) ==
  /\ AppStarted /\ currentPage = "auth"
  /\ \E username \in {trim(rawUsername)} :
     LET ok == {a \in Range(getUsers(allData, heap)) :
                  Str(heap[a], "username") = username /\ Str(heap[a], "password") = password}
         user == find(getUsers(allData, heap), ok)
     IN  FinishUI(noCall(Store), heap,
                  Call("none", "login",
                       [id |-> "", username |-> rawUsername, password |-> password]),
                  IF user # 0
                  THEN Session(user, "timeline", selectedChatUser, "Bienvenido de nuevo",
                               showPageRenders("timeline"))
                  ELSE Session(currentUser, currentPage, selectedChatUser,
                               "Usuario o contrasena incorrectos", <<>>))
  /\ cfgIdle

\* faulty variant of registerSubmit: the username is not looked up first
registerSubmitNoCheck(rawFullName, rawUsername, password) ==
  /\ AppStarted /\ currentPage = "auth"
  /\ \E fullName \in {trim(rawFullName)}, username \in {trim(rawUsername)} :
       /\ Len(data) < MaxLen /\ CanGenerate(heap)
       /\ \E obj \in {[id |-> generateId(heap), type |-> "user", username |-> username,
                       password |-> password, fullName |-> fullName,
                       bio |-> "Amante de la cocina", profilePhoto |-> ""]} :
          \E r \in {create(Store, New(obj), NewAddr(heap))} :
            FinishUI(r, New(obj), Put(Call("create", "register", obj), "input", username),
                     Session(currentUser, currentPage, selectedChatUser,
                             IF r.result.isOk
                             THEN "Cuenta creada! Ahora puedes iniciar sesion"
                             ELSE "Error al crear la cuenta", <<>>))
  /\ cfgIdle

\* registerForm submit
registerSubmit(rawFullName, rawUsername, password) ==
  /\ AppStarted /\ currentPage = "auth"
  /\ \E fullName \in {trim(rawFullName)}, username \in {trim(rawUsername)} :
       IF \E u \in Range(getUsers(allData, heap)) : Str(heap[u], "username") = username
       THEN FinishUI(noCall(Store), heap, Put(Call("none", "register", [id |-> username]), "input", username),
                     Session(currentUser, currentPage, selectedChatUser,
                             "El nombre de usuario ya existe", <<>>))
       ELSE /\ Len(data) < MaxLen /\ CanGenerate(heap)
            /\ \E obj \in {[id |-> generateId(heap), type |-> "user", username |-> username,
                            password |-> password, fullName |-> fullName,
                            bio |-> "Amante de la cocina", profilePhoto |-> ""]} :
               \E r \in {create(Store, New(obj), NewAddr(heap))} :
                 FinishUI(r, New(obj), Put(Call("create", "register", obj), "input", username),
                          Session(currentUser, currentPage, selectedChatUser,
                                  IF r.result.isOk
                                  THEN "Cuenta creada! Ahora puedes iniciar sesion"
                                  ELSE "Error al crear la cuenta", <<>>))
  /\ cfgIdle

\* faulty variant of logout: selectedChatUser is not cleared
logoutKeepsChat ==
  /\ AppStarted /\ currentPage # "auth"
  /\ FinishUI(noCall(Store), heap, Call("none", "logout", NoArg),
              Session(0, "auth", selectedChatUser, "Sesion cerrada", showPageRenders("auth")))
  /\ cfgIdle

\* faulty variant of logout: the session is cleared and the page stays
logoutNoShowPage ==
  /\ AppStarted /\ currentPage # "auth"
  /\ FinishUI(noCall(Store), heap, Call("none", "logout", NoArg),
              Session(0, currentPage, 0, "Sesion cerrada", <<>>))
  /\ cfgIdle

\* logoutBtn click
logout ==
  /\ AppStarted /\ currentPage # "auth"
  /\ FinishUI(noCall(Store), heap, Call("none", "logout", NoArg),
              Session(0, "auth", 0, "Sesion cerrada", showPageRenders("auth")))
  /\ cfgIdle

\* header navigation buttons
showPage(pageName) ==
  /\ AppStarted /\ currentPage # "auth"
  /\ FinishUI(noCall(Store), heap, Call("none", "showPage", [id |-> pageName]),
              Session(currentUser, pageName, selectedChatUser, "", showPageRenders(pageName)))
  /\ cfgIdle

\* likedByArray.splice(likedByArray.indexOf(id), 1)
spliceOut(s, id) ==
  LET i == CHOOSE k \in 1..Len(s) : s[k] = id /\ \A j \in 1..(k - 1) : s[j] # id
  IN  SubSeq(s, 1, i - 1) \o SubSeq(s, i + 1, Len(s))

\* recipe.likedBy ? recipe.likedBy.split(',').filter(id => id) : []
likedByArrayOf(recipe) == IF "likedBy" \in DOMAIN recipe THEN recipe.likedBy ELSE <<>>

\* recipe.likes || 0
likesOf(recipe) == IF "likes" \in DOMAIN recipe THEN recipe.likes ELSE 0

\* likedByArray.join(',') as the next split(',').filter(id => id) reads it
\* back: an empty id leaves no entry (the ids here hold no comma, as those of
\* the seed and of generateId)
joinedLikedBy(likedByArray) == SelectSeq(likedByArray, LAMBDA id : id # "")

\* faulty variant of toggled: taking a like back lowers the count and leaves
\* the id in likedBy
toggledNoSplice(recipe, me) ==
  LET isLiked == me \in Range(likedByArrayOf(recipe))
      newLikes == IF isLiked
                  THEN (IF likesOf(recipe) - 1 > 0 THEN likesOf(recipe) - 1 ELSE 0)
                  ELSE likesOf(recipe) + 1
      newLikedBy == IF isLiked THEN likedByArrayOf(recipe)
                    ELSE Append(likedByArrayOf(recipe), me)
  IN  Put(Put(recipe, "likes", newLikes), "likedBy", joinedLikedBy(newLikedBy))

\* faulty variant of toggled: the count is not lowered when the like is taken back
toggledNoDecrement(recipe, me) ==
  LET isLiked == me \in Range(likedByArrayOf(recipe))
      newLikes == IF isLiked THEN likesOf(recipe) ELSE likesOf(recipe) + 1
      newLikedBy == IF isLiked THEN spliceOut(likedByArrayOf(recipe), me)
                    ELSE Append(likedByArrayOf(recipe), me)
  IN  Put(Put(recipe, "likes", newLikes), "likedBy", joinedLikedBy(newLikedBy))

\* toggleLike: the recipe after the in-place change of likes and likedBy
toggled(recipe, me) ==
  LET isLiked == me \in Range(likedByArrayOf(recipe))
      newLikes == IF isLiked
                  THEN (IF likesOf(recipe) - 1 > 0 THEN likesOf(recipe) - 1 ELSE 0)
                  ELSE likesOf(recipe) + 1
      newLikedBy == IF isLiked THEN spliceOut(likedByArrayOf(recipe), me)
                    ELSE Append(likedByArrayOf(recipe), me)
  IN  Put(Put(recipe, "likes", newLikes), "likedBy", joinedLikedBy(newLikedBy))

toggleLike(recipeId) ==
  /\ AppStarted
  /\ recipeId \in shownRecipes(allData, heap, currentUser, currentPage)
  /\ \E a \in {find(allData, {b \in Range(allData) : Str(heap[b], "id") = recipeId})} :
     \E hp \in {[heap EXCEPT ![a] = toggled(heap[a], Str(heap[currentUser], "id"))]} :
     \E r \in {update(Store, hp, a)} :
       FinishUI(r, hp, CallOn("update", "toggleLike", hp[a], heap[a]),
                Session(currentUser, currentPage, selectedChatUser,
                        IF r.result.isOk THEN "" ELSE "Error al actualizar el me gusta",
                        <<>>))
  /\ cfgIdle

CommentTexts == {"rico"}

\* faulty variant of addComment: the new comment is put first
addCommentFirst(recipeId, rawText) ==
  /\ AppStarted
  /\ recipeId \in shownRecipes(allData, heap, currentUser, currentPage)
  /\ LET commentText == trim(rawText)
         a == find(allData, {b \in Range(allData) : Str(heap[b], "id") = recipeId})
         recipe == heap[a]
         comments == IF "comments" \in DOMAIN recipe THEN recipe.comments ELSE <<>>
         added == <<[author |-> Str(heap[currentUser], "username"),
                    text |-> commentText]>> \o comments
     IN  IF commentText = ""
         THEN FinishUI(noCall(Store), heap,
                       Put(Call("none", "addComment", [id |-> recipeId]), "input", commentText),
                       Session(currentUser, currentPage, selectedChatUser, "", <<>>))
         ELSE /\ Len(comments) < MaxComments
              /\ \E hp \in {[heap EXCEPT ![a] = Put(recipe, "comments", added)]} :
                 \E r \in {update(Store, hp, a)} :
                   FinishUI(r, hp,
                            Put(CallOn("update", "addComment", hp[a], recipe),
                                "input", commentText),
                            Session(currentUser, currentPage, selectedChatUser,
                                    IF r.result.isOk THEN ""
                                    ELSE "Error al anadir el comentario", <<>>))
  /\ cfgIdle

\* addComment, from the comment form of a recipe shown
addComment(recipeId, rawText) ==
  /\ AppStarted
  /\ recipeId \in shownRecipes(allData, heap, currentUser, currentPage)
  /\ LET commentText == trim(rawText)
         a == find(allData, {b \in Range(allData) : Str(heap[b], "id") = recipeId})
         recipe == heap[a]
         comments == IF "comments" \in DOMAIN recipe THEN recipe.comments ELSE <<>>
         added == Append(comments, [author |-> Str(heap[currentUser], "username"),
                                    text |-> commentText])
     IN  IF commentText = ""
         THEN FinishUI(noCall(Store), heap,
                       Put(Call("none", "addComment", [id |-> recipeId]), "input", commentText),
                       Session(currentUser, currentPage, selectedChatUser, "", <<>>))
         ELSE /\ Len(comments) < MaxComments
              /\ \E hp \in {[heap EXCEPT ![a] = Put(recipe, "comments", added)]} :
                 \E r \in {update(Store, hp, a)} :
                   FinishUI(r, hp,
                            Put(CallOn("update", "addComment", hp[a], recipe),
                                "input", commentText),
                            Session(currentUser, currentPage, selectedChatUser,
                                    IF r.result.isOk THEN ""
                                    ELSE "Error al anadir el comentario", <<>>))
  /\ cfgIdle

RecipeTitles == {"Paella"}

\* newRecipeForm submit with no image file chosen
newRecipeSubmit(title) ==
  /\ AppStarted /\ currentPage # "auth" /\ currentUser # 0
  /\ ~buttons.submitRecipeBtn.disabled
  /\ Len(data) < MaxLen /\ CanGenerate(heap)
  /\ \E obj \in {[id |-> generateId(heap), type |-> "recipe", recipeTitle |-> title,
                  authorId |-> Str(heap[currentUser], "id"),
                  authorName |-> Str(heap[currentUser], "username"),
                  likes |-> 0, likedBy |-> <<>>, comments |-> <<>>]} :
     \E r \in {create(Store, New(obj), NewAddr(heap))} :
       FinishUI(r, New(obj), Call("create", "newRecipe", obj),
                Session(currentUser, currentPage, selectedChatUser,
                        IF r.result.isOk THEN "Receta publicada"
                        ELSE "Error al publicar la receta", <<>>))
  /\ cfgIdle

FullNames == {"Nuevo Nombre"}
Bios == {"Nueva bio"}

\* faulty variant of editProfileSubmit: the handler leaves the rendering to the
\* observer
editProfileSubmitNoRender(fullName, bio) ==
  /\ AppStarted /\ currentPage = "profile" /\ currentUser # 0
  /\ ~buttons.submitEditProfileBtn.disabled
  /\ \E edited \in {Put(Put(Put(heap[currentUser], "fullName", fullName), "bio", bio),
                        "profilePhoto", "")} :
     \E hp \in {[heap EXCEPT ![currentUser] = edited]} :
     \E r \in {update(Store, hp, currentUser)} :
     \E ad \in {onDataChanged(r.delivered, allData)} :
     \E u \in {find(getUsers(ad, hp), {b \in Range(ad) : Str(hp[b], "id") = Str(edited, "id")})} :
       FinishUI(r, hp, CallOn("update", "editProfile", edited, heap[currentUser]),
                IF r.result.isOk
                THEN Session(IF u # 0 THEN u ELSE currentUser, currentPage, selectedChatUser,
                             "Perfil actualizado", <<>>)
                ELSE Session(currentUser, currentPage, selectedChatUser,
                             "Error al actualizar el perfil", <<>>))
  /\ cfgIdle

\* editProfileForm submit with no photo file chosen
editProfileSubmit(fullName, bio) ==
  /\ AppStarted /\ currentPage = "profile" /\ currentUser # 0
  /\ ~buttons.submitEditProfileBtn.disabled
  /\ \E edited \in {Put(Put(Put(heap[currentUser], "fullName", fullName), "bio", bio),
                        "profilePhoto", "")} :
     \E hp \in {[heap EXCEPT ![currentUser] = edited]} :
     \E r \in {update(Store, hp, currentUser)} :
     \E ad \in {onDataChanged(r.delivered, allData)} :
     \E u \in {find(getUsers(ad, hp), {b \in Range(ad) : Str(hp[b], "id") = Str(edited, "id")})} :
       FinishUI(r, hp, CallOn("update", "editProfile", edited, heap[currentUser]),
                IF r.result.isOk
                THEN Session(IF u # 0 THEN u ELSE currentUser, currentPage, selectedChatUser,
                             "Perfil actualizado", <<Render("handler", "renderProfile")>>)
                ELSE Session(currentUser, currentPage, selectedChatUser,
                             "Error al actualizar el perfil", <<>>))
  /\ cfgIdle

\* a submission waiting for its image: the form's values, and who was logged
\* in when it was submitted (kept for the properties; no handler reads it)
Submission(form, title, fullName, bio) ==
  [form |-> form, title |-> title, fullName |-> fullName, bio |-> bio,
   submitter |-> Str(heap[currentUser], "id")]

\* newRecipeForm submit with an image file chosen, up to
\* await readAndResizeImage(file, 1200, 0.8)
newRecipeSubmitFile(title) ==
  /\ AppStarted /\ currentPage # "auth" /\ currentUser # 0
  /\ ~buttons.submitRecipeBtn.disabled
  /\ FinishUI(noCall(Store), heap, Call("none", "newRecipeFile", NoArg),
              Forms(Session(currentUser, currentPage, selectedChatUser, "", <<>>),
                    pending \cup {Submission("recipe", title, "", "")},
                    [buttons EXCEPT !.submitRecipeBtn = Busy("Publicando...")]))
  /\ cfgIdle

\* editProfileForm submit with a photo file chosen, up to
\* await readAndResizeImage(file, 800, 0.85)
editProfileSubmitFile(fullName, bio) ==
  /\ AppStarted /\ currentPage = "profile" /\ currentUser # 0
  /\ ~buttons.submitEditProfileBtn.disabled
  /\ FinishUI(noCall(Store), heap, Call("none", "editProfileFile", NoArg),
              Forms(Session(currentUser, currentPage, selectedChatUser, "", <<>>),
                    pending \cup {Submission("profile", "", fullName, bio)},
                    [buttons EXCEPT !.submitEditProfileBtn = Busy("Guardando...")]))
  /\ cfgIdle

\* faulty variant of imageFailed: the submit button is left as it is
imageFailedKeepsBusy(form) ==
  /\ AppStarted
  /\ \E p \in {q \in pending : q.form = form} :
     \E c \in {Put(Call("none", "imageFailed", NoArg), "tag",
                   [form |-> form, submitter |-> p.submitter])} :
       IF form = "recipe"
       THEN FinishUI(noCall(Store), heap, c,
                     Forms(Session(currentUser, currentPage, selectedChatUser,
                                   "Error al procesar la imagen. Usa otra imagen", <<>>),
                           pending \ {p}, buttons))
       ELSE FinishUI(noCall(Store), heap, c,
                     Forms(Session(currentUser, currentPage, selectedChatUser,
                                   "Error al procesar la imagen. Prueba con otro archivo", <<>>),
                           pending \ {p}, buttons))
  /\ cfgIdle

\* readAndResizeImage rejects (img.onerror, or an exception in img.onload):
\* the rest of the waiting submit handler
imageFailed(form) ==
  /\ AppStarted
  /\ \E p \in {q \in pending : q.form = form} :
     \E c \in {Put(Call("none", "imageFailed", NoArg), "tag",
                   [form |-> form, submitter |-> p.submitter])} :
       IF form = "recipe"
       THEN FinishUI(noCall(Store), heap, c,
                     Forms(Session(currentUser, currentPage, selectedChatUser,
                                   "Error al procesar la imagen. Usa otra imagen", <<>>),
                           pending \ {p}, [buttons EXCEPT !.submitRecipeBtn = Ready("Publicar Receta")]))
       ELSE FinishUI(noCall(Store), heap, c,
                     Forms(Session(currentUser, currentPage, selectedChatUser,
                                   "Error al procesar la imagen. Prueba con otro archivo", <<>>),
                           pending \ {p}, [buttons EXCEPT !.submitEditProfileBtn = Ready("Guardar Cambios")]))
  /\ cfgIdle

\* readAndResizeImage resolves with a data URL: the rest of the waiting submit
\* handler.  With currentUser null, currentUser.id and currentUser.fullName
\* = ... throw a TypeError, which the handler's catch turns into a toast.
imageLoaded(form) ==
  /\ AppStarted
  /\ \E p \in {q \in pending : q.form = form} :
     \E tag \in {[form |-> form, submitter |-> p.submitter]} :
       IF form = "recipe"
       THEN \E btns \in {[buttons EXCEPT !.submitRecipeBtn = Ready("Publicar Receta")]} :
            IF currentUser = 0
            THEN FinishUI(noCall(Store), heap,
                          Put(Call("none", "imageLoaded", NoArg), "tag", tag),
                          Forms(Session(currentUser, currentPage, selectedChatUser,
                                        "Error al publicar la receta", <<>>),
                                pending \ {p}, btns))
            ELSE /\ Len(data) < MaxLen /\ CanGenerate(heap)
                 /\ \E obj \in {[id |-> generateId(heap), type |-> "recipe",
                                 recipeTitle |-> p.title,
                                 authorId |-> Str(heap[currentUser], "id"),
                                 authorName |-> Str(heap[currentUser], "username"),
                                 likes |-> 0, likedBy |-> <<>>, comments |-> <<>>]} :
                    \E r \in {create(Store, New(obj), NewAddr(heap))} :
                      FinishUI(r, New(obj),
                               Put(Call("create", "imageLoaded", obj), "tag", tag),
                               Forms(Session(currentUser, currentPage, selectedChatUser,
                                             IF r.result.isOk THEN "Receta publicada"
                                             ELSE "Error al publicar la receta", <<>>),
                                     pending \ {p}, btns))
       ELSE \E btns \in {[buttons EXCEPT !.submitEditProfileBtn = Ready("Guardar Cambios")]} :
            IF currentUser = 0
            THEN FinishUI(noCall(Store), heap,
                          Put(Call("none", "imageLoaded", NoArg), "tag", tag),
                          Forms(Session(currentUser, currentPage, selectedChatUser,
                                        "Error al actualizar el perfil", <<>>),
                                pending \ {p}, btns))
            ELSE \E edited \in {Put(Put(Put(heap[currentUser], "fullName", p.fullName),
                                         "bio", p.bio), "profilePhoto", "dataUrl")} :
                 \E hp \in {[heap EXCEPT ![currentUser] = edited]} :
                 \E r \in {update(Store, hp, currentUser)} :
                 \E ad \in {onDataChanged(r.delivered, allData)} :
                 \E u \in {find(getUsers(ad, hp),
                                {b \in Range(ad) : Str(hp[b], "id") = Str(edited, "id")})} :
                   FinishUI(r, hp,
                            Put(CallOn("update", "imageLoaded", edited, heap[currentUser]),
                                "tag", tag),
                            Forms(IF r.result.isOk
                                  THEN Session(IF u # 0 THEN u ELSE currentUser, currentPage,
                                               selectedChatUser, "Perfil actualizado",
                                               <<Render("handler", "renderProfile")>>)
                                  ELSE Session(currentUser, currentPage, selectedChatUser,
                                               "Error al actualizar el perfil", <<>>),
                                  pending \ {p}, btns))
  /\ cfgIdle

\* the users renderSearchResults lists with an enabled button: not the current
\* user, no accepted or pending friendship with them
befriendable(ad, hp, cu) ==
  LET me == Str(hp[cu], "id")
      linked(x) == \E f \in Range(getFriendships(ad, hp)) :
                     /\ Str(hp[f], "status") \in {"accepted", "pending"}
                     /\ \/ Str(hp[f], "requesterId") = me /\ Str(hp[f], "receiverId") = x
                        \/ Str(hp[f], "requesterId") = x /\ Str(hp[f], "receiverId") = me
  IN  {Str(hp[a], "id") : a \in {b \in Range(getUsers(ad, hp)) :
                                   Str(hp[b], "id") # me /\ ~linked(Str(hp[b], "id"))}}

\* faulty variant of sendFriendRequestCall: a friendship is looked for in one
\* direction only
sendFriendRequestCallOneWay(receiverId) ==
  /\ AppStarted /\ currentUser # 0
  /\ \E me \in {Str(heap[currentUser], "id")} :
     \E existingRequest \in
          {find(getFriendships(allData, heap),
                {f \in Range(allData) :
                   \/ Str(heap[f], "requesterId") = me /\ Str(heap[f], "receiverId") = receiverId})} :
       IF existingRequest # 0
       THEN FinishUI(noCall(Store), heap, Call("none", "sendFriendRequest", [id |-> receiverId]),
                     Session(currentUser, currentPage, selectedChatUser,
                             "Ya existe una solicitud con este usuario", <<>>))
       ELSE /\ Len(data) < MaxLen /\ CanGenerate(heap)
            /\ \E obj \in {[id |-> generateId(heap), type |-> "friendship",
                            requesterId |-> me, receiverId |-> receiverId,
                            status |-> "accepted"]} :
               \E r \in {create(Store, New(obj), NewAddr(heap))} :
                 FinishUI(r, New(obj), Call("create", "sendFriendRequest", obj),
                          Session(currentUser, currentPage, selectedChatUser,
                                  IF r.result.isOk THEN "Ahora son amigos"
                                  ELSE "Error al enviar la solicitud", <<>>))
  /\ cfgIdle

\* a call of sendFriendRequest(receiverId)
sendFriendRequestCall(receiverId) ==
  /\ AppStarted /\ currentUser # 0
  /\ \E me \in {Str(heap[currentUser], "id")} :
     \E existingRequest \in
          {find(getFriendships(allData, heap),
                {f \in Range(allData) :
                   \/ Str(heap[f], "requesterId") = me /\ Str(heap[f], "receiverId") = receiverId
                   \/ Str(heap[f], "requesterId") = receiverId /\ Str(heap[f], "receiverId") = me})} :
       IF existingRequest # 0
       THEN FinishUI(noCall(Store), heap, Call("none", "sendFriendRequest", [id |-> receiverId]),
                     Session(currentUser, currentPage, selectedChatUser,
                             "Ya existe una solicitud con este usuario", <<>>))
       ELSE /\ Len(data) < MaxLen /\ CanGenerate(heap)
            /\ \E obj \in {[id |-> generateId(heap), type |-> "friendship",
                            requesterId |-> me, receiverId |-> receiverId,
                            status |-> "accepted"]} :
               \E r \in {create(Store, New(obj), NewAddr(heap))} :
                 FinishUI(r, New(obj), Call("create", "sendFriendRequest", obj),
                          Session(currentUser, currentPage, selectedChatUser,
                                  IF r.result.isOk THEN "Ahora son amigos"
                                  ELSE "Error al enviar la solicitud", <<>>))
  /\ cfgIdle

\* sendFriendRequest, from the enabled button of a user on the search page
sendFriendRequest(receiverId) ==
  /\ currentPage = "search" /\ currentUser # 0
  /\ receiverId \in befriendable(allData, heap, currentUser)
  /\ sendFriendRequestCall(receiverId)

\* selectChat, from a conversation item of the messages page
selectChat(userId) ==
  /\ AppStarted /\ currentPage = "messages" /\ currentUser # 0
  /\ userId \in getUserFriends(allData, heap, Str(heap[currentUser], "id"))
  /\ \E user \in {find(getUsers(allData, heap),
                       {b \in Range(allData) : Str(heap[b], "id") = userId})} :
       FinishUI(noCall(Store), heap, Call("none", "selectChat", [id |-> userId]),
                IF user = 0
                THEN Session(currentUser, currentPage, selectedChatUser, "", <<>>)
                ELSE Session(currentUser, currentPage, user, "",
                             <<Render("handler", "renderChat")>>))
  /\ cfgIdle

MessageTexts == {"hola"}

\* sendMessageBtn click with a text in the chat input
sendMessage(rawText) ==
  /\ AppStarted /\ currentPage = "messages" /\ currentUser # 0
  /\ \E messageText \in {trim(rawText)} :
     IF messageText = "" \/ selectedChatUser = 0
     THEN FinishUI(noCall(Store), heap,
                   Put(Call("none", "sendMessage", NoArg), "input", messageText),
                   Session(currentUser, currentPage, selectedChatUser, "", <<>>))
     ELSE /\ Len(data) < MaxLen /\ CanGenerate(heap)
          /\ \E obj \in {[id |-> generateId(heap), type |-> "message",
                          fromUserId |-> Str(heap[currentUser], "id"),
                          toUserId |-> Str(heap[selectedChatUser], "id"),
                          messageText |-> messageText]} :
             \E r \in {create(Store, New(obj), NewAddr(heap))} :
               FinishUI(r, New(obj),
                        Put(Call("create", "sendMessage", obj), "input", messageText),
                        IF r.result.isOk
                        THEN Session(currentUser, currentPage, selectedChatUser, "",
                                     <<Render("handler", "renderChat"),
                                       Render("handler", "renderConversations")>>)
                        ELSE Session(currentUser, currentPage, selectedChatUser,
                                     "Error al enviar el mensaje", <<>>))
  /\ cfgIdle

\* faulty variant of deleteRecipeCall: the author is not compared with the
\* current user
deleteRecipeCallAnyAuthor(recipeId, confirmed) ==
  /\ AppStarted /\ currentUser # 0
  /\ \E recipe \in {find(allData, {b \in Range(allData) :
                      Str(heap[b], "id") = recipeId /\ Str(heap[b], "type") = "recipe"})} :
       IF recipe = 0
       THEN FinishUI(noCall(Store), heap,
                     Call("none", "deleteRecipe", [id |-> recipeId, confirmed |-> confirmed]),
                     Session(currentUser, currentPage, selectedChatUser,
                             "Receta no encontrada", <<>>))
       ELSE IF ~confirmed
       THEN FinishUI(noCall(Store), heap,
                     Call("none", "deleteRecipe", [id |-> recipeId, confirmed |-> confirmed]),
                     Session(currentUser, currentPage, selectedChatUser, "", <<>>))
       ELSE \E r \in {delete(Store, heap, recipeId)} :
              FinishUI(r, heap,
                       Call("delete", "deleteRecipe", [id |-> recipeId, confirmed |-> confirmed]),
                       Session(currentUser, currentPage, selectedChatUser,
                               IF r.result.isOk THEN "Receta eliminada"
                               ELSE "Error al eliminar la receta", <<>>))
  /\ cfgIdle

\* a call of deleteRecipe(recipeId); confirmed is the answer to confirm()
deleteRecipeCall(recipeId, confirmed) ==
  /\ AppStarted /\ currentUser # 0
  /\ \E recipe \in {find(allData, {b \in Range(allData) :
                      Str(heap[b], "id") = recipeId /\ Str(heap[b], "type") = "recipe"})} :
       IF recipe = 0
       THEN FinishUI(noCall(Store), heap,
                     Call("none", "deleteRecipe", [id |-> recipeId, confirmed |-> confirmed]),
                     Session(currentUser, currentPage, selectedChatUser,
                             "Receta no encontrada", <<>>))
       ELSE IF Str(heap[recipe], "authorId") # Str(heap[currentUser], "id")
       THEN FinishUI(noCall(Store), heap,
                     Call("none", "deleteRecipe", [id |-> recipeId, confirmed |-> confirmed]),
                     Session(currentUser, currentPage, selectedChatUser,
                             "No puedes eliminar esta receta", <<>>))
       ELSE IF ~confirmed
       THEN FinishUI(noCall(Store), heap,
                     Call("none", "deleteRecipe", [id |-> recipeId, confirmed |-> confirmed]),
                     Session(currentUser, currentPage, selectedChatUser, "", <<>>))
       ELSE \E r \in {delete(Store, heap, recipeId)} :
              FinishUI(r, heap,
                       Call("delete", "deleteRecipe", [id |-> recipeId, confirmed |-> confirmed]),
                       Session(currentUser, currentPage, selectedChatUser,
                               IF r.result.isOk THEN "Receta eliminada"
                               ELSE "Error al eliminar la receta", <<>>))
  /\ cfgIdle

\* deleteRecipe, from the delete button of a recipe on the profile page
deleteRecipe(recipeId, confirmed) ==
  /\ currentPage = "profile"
  /\ recipeId \in shownRecipes(allData, heap, currentUser, currentPage)
  /\ deleteRecipeCall(recipeId, confirmed)

-----------------------------------------------------------------------------
(* Calls of the store while localStorage.setItem throws *)

DataSdkCreateFull(obj) ==
  /\ Len(data) < MaxLen
  /\ Finish(createSaveThrows(Store, New(obj), NewAddr(heap)), New(obj),
            Call("create", "api", obj), currentUser, currentPage)

DataSdkUpdateFull(obj) ==
  /\ obj \in ApiRecords
  /\ Finish(updateSaveThrows(Store, New(obj), NewAddr(heap)), New(obj),
            Call("update", "api", obj), currentUser, currentPage)

DataSdkDeleteFull(id) ==
  /\ id \in ApiIds \cup {"f1"}
  /\ Finish(deleteSaveThrows(Store, heap, id), heap, Call("delete", "api", [id |-> id]),
            currentUser, currentPage)

DataSdkResetFull ==
  /\ TRUE
  /\ Finish(resetSaveThrows(Store, heap), heap, Call("reset", "api", NoArg),
            currentUser, currentPage)

\* newRecipeForm submit with no image file chosen, while setItem throws: the
\* handler's catch shows a toast and its finally restores the button
newRecipeSubmitFull(title) ==
  /\ AppStarted /\ currentPage # "auth" /\ currentUser # 0
  /\ ~buttons.submitRecipeBtn.disabled
  /\ Len(data) < MaxLen /\ CanGenerate(heap)
  /\ \E obj \in {[id |-> generateId(heap), type |-> "recipe", recipeTitle |-> title,
                  authorId |-> Str(heap[currentUser], "id"),
                  authorName |-> Str(heap[currentUser], "username"),
                  likes |-> 0, likedBy |-> <<>>, comments |-> <<>>]} :
     \E r \in {createSaveThrows(Store, New(obj), NewAddr(heap))} :
       FinishUI(r, New(obj), Call("create", "newRecipe", obj),
                Session(currentUser, currentPage, selectedChatUser,
                        "Error al publicar la receta", <<>>))
  /\ cfgIdle

-----------------------------------------------------------------------------

\* the store used by any script of the page
Next ==
  \/ \E h \in Handlers : DataSdkInit(h)
  \/ \E obj \in ApiRecords : DataSdkCreate(obj)
  \/ \E obj \in ApiRecords : DataSdkUpdate(obj)
  \/ \E id \in ApiIds : DataSdkDelete(id)
  \/ DataSdkReset

Spec == Init /\ [][Next]_vars

\* the store's API, and the page loaded again at any moment
ReloadNext ==
  \/ Next
  \/ pageReload

ReloadSpec == Init /\ [][ReloadNext]_vars

\* the page: initApp registers dataHandler, then UI events, and store calls by
\* another script of the page
ScriptRecords == {ApiClash}

\* ids of the users a button of the page can name
UserIds == {"u_demo", "u_ana"}

\* ids of the recipes a button of the page can name
RecipeIds == {"r1"} \cup Range(GenIds)

\* initApp: dataSdk.init(dataHandler), then elementSdk.init with the app's
\* defaults and callback; the first result is always isOk, and the await
\* between the two lets no other task in
initApp ==
  /\ ~AppStarted
  /\ FinishUI(init(Store, "dataHandler"), heap, Call("init", "initApp", [id |-> "dataHandler"]),
              Session(currentUser, currentPage, selectedChatUser, "", <<>>))
  /\ cfgDone(elementInit(Element, defaultConfig, "onConfigChange"))
  /\ themeIdle

-----------------------------------------------------------------------------
(* Theme (src/unnamed/part_000; src/app.js has no theme) *)

\* faulty variant of applyTheme: the theme is not saved
applyThemeNoSave(theme) ==
  [dark |-> theme = "dark", themeStorage |-> themeStorage]

\* applyTheme(theme): the class "dark" is on the body exactly for "dark" (the
\* toggle button's label follows it), and the theme is saved in its slot
applyTheme(theme) ==
  [dark |-> theme = "dark", themeStorage |-> [kind |-> "text", value |-> theme]]

\* loadTheme(): localStorage.getItem('recetagram_theme') || 'light'
loadTheme ==
  applyTheme(IF themeStorage.kind = "missing" \/ themeStorage.value = ""
             THEN "light" ELSE themeStorage.value)

\* the step ends with the theme t
themeDone(t) ==
  /\ dark' = t.dark
  /\ themeStorage' = t.themeStorage

\* initApp of part_000: as initApp, then loadTheme()
initAppTheme ==
  /\ ~AppStarted
  /\ FinishUI(init(Store, "dataHandler"), heap, Call("init", "initApp", [id |-> "dataHandler"]),
              Session(currentUser, currentPage, selectedChatUser, "", <<>>))
  /\ cfgDone(elementInit(Element, defaultConfig, "onConfigChange"))
  /\ themeDone(loadTheme)

\* themeToggleBtn click: toggleTheme()
toggleTheme ==
  /\ AppStarted
  /\ FinishUI(noCall(Store), heap,
              CallOn("none", "toggleTheme", NoArg, [dark |-> dark]),
              Session(currentUser, currentPage, selectedChatUser, "", <<>>))
  /\ elementIdle
  /\ themeDone(applyTheme(IF dark THEN "light" ELSE "dark"))

AppNext ==
  \/ initApp
  \/ \E u \in Usernames, p \in Passwords : loginSubmit(u, p)
  \/ logout
  \/ \E p \in Pages : showPage(p)
  \/ \E id \in ApiIds : toggleLike(id)
  \/ \E id \in ApiIds, t \in CommentTexts : addComment(id, t)
  \/ \E n \in FullNames, b \in Bios : editProfileSubmit(n, b)
  \/ \E id \in ApiIds, c \in BOOLEAN : deleteRecipe(id, c)
  \/ \E obj \in ScriptRecords : DataSdkCreate(obj)
  \/ \E obj \in ScriptRecords : DataSdkUpdate(obj)
  \/ \E id \in ApiIds : DataSdkDelete(id)
  \/ DataSdkReset

AppSpec == Init /\ [][AppNext]_vars

\* the page used through its UI by the demo user, every handler that writes
\* to the store included (comments go to the seeded recipe); another script
\* removes the seeded friendship, so that a friend request can be made
PageNext ==
  \/ initApp
  \/ \E u \in {"demo"}, p \in Passwords : loginSubmit(u, p)
  \/ logout
  \/ \E p \in Pages : showPage(p)
  \/ \E id \in RecipeIds : toggleLike(id)
  \/ \E id \in {"r1"}, t \in CommentTexts : addComment(id, t)
  \/ \E t \in RecipeTitles : newRecipeSubmit(t)
  \/ \E n \in FullNames, b \in Bios : editProfileSubmit(n, b)
  \/ \E id \in UserIds : sendFriendRequest(id)
  \/ \E id \in UserIds : selectChat(id)
  \/ \E t \in MessageTexts : sendMessage(t)
  \/ \E id \in RecipeIds, c \in BOOLEAN : deleteRecipe(id, c)
  \/ \E id \in {"f1"} : DataSdkDelete(id)

PageSpec == Init /\ [][PageNext]_vars


\* the first page load: both slots are empty and the store seeds itself
SeedInit ==
  Loaded([kind |-> "missing", value |-> <<>>], [kind |-> "missing", value |-> <<>>])

\* recipes and likes: both seeded users post, like, comment and delete
LikeNext ==
  \/ initApp
  \/ \E u \in Usernames : loginSubmit(u, u)
  \/ logout
  \/ \E p \in {"timeline", "profile"} : showPage(p)
  \/ \E id \in RecipeIds : toggleLike(id)
  \/ \E id \in {"r1"}, t \in CommentTexts : addComment(id, t)
  \/ \E t \in RecipeTitles : newRecipeSubmit(t)
  \/ \E id \in RecipeIds : deleteRecipe(id, TRUE)

LikeSpec == SeedInit /\ [][LikeNext]_vars

\* what the register form's username and name inputs are given
RawUsernames == {"demo", Padded("demo"), "eva", Padded("eva"), "leo"}
RawFullNames == {"Eva Cocina"}

\* accounts: registration, and the seeded and the new users logging in
RegNext ==
  \/ initApp
  \/ \E n \in RawFullNames, u \in RawUsernames, p \in Passwords : registerSubmit(n, u, p)
  \/ \E u \in {"demo", "eva", "leo"}, p \in Passwords : loginSubmit(u, p)
  \/ logout
  \/ \E p \in Pages : showPage(p)
  \/ \E n \in FullNames, b \in Bios : editProfileSubmit(n, b)

RegSpec == SeedInit /\ [][RegNext]_vars

\* what the two fields of the login form may hold
LoginUsernames == RawUsernames \cup {"ana"}
LoginPasswords == {"demo", "ana", Padded("demo")}

\* logging in: with right and wrong, padded and plain credentials, of the
\* seeded users and of users registered meanwhile
LoginNext ==
  \/ initApp
  \/ \E n \in RawFullNames, u \in RawUsernames, p \in LoginPasswords : registerSubmit(n, u, p)
  \/ \E u \in LoginUsernames, p \in LoginPasswords : loginSubmit(u, p)
  \/ logout
  \/ \E p \in {"timeline", "profile"} : showPage(p)

LoginSpec == SeedInit /\ [][LoginNext]_vars

\* friendships: both seeded users call sendFriendRequest for any user, and a
\* script deletes the seeded friendship
FriendNext ==
  \/ initApp
  \/ \E u \in Usernames : loginSubmit(u, u)
  \/ logout
  \/ \E p \in {"search", "messages"} : showPage(p)
  \/ \E id \in UserIds : sendFriendRequestCall(id)
  \/ \E id \in UserIds : selectChat(id)
  \/ \E id \in {"f1"} : DataSdkDelete(id)

FriendSpec == SeedInit /\ [][FriendNext]_vars

\* ids deleteRecipe is called with: recipes, a friendship, no record
DeleteIds == RecipeIds \cup {"f1", "zz"}

\* every handler of the app, and deleteRecipe called with any of these ids
\* by a user who would confirm
DelNext ==
  \/ PageNext
  \/ \E id \in DeleteIds : deleteRecipeCall(id, TRUE)

DelSpec == SeedInit /\ [][DelNext]_vars

\* what the comment and chat inputs are given: a text, blanks, nothing (the
\* comment input is `required`, so its form is not submitted empty)
RawComments == {"rico", Padded("")}
RawMessages == {"hola", "", Padded("")}

\* input validation: registration, comments and messages with good and bad
\* input
ValidNext ==
  \/ initApp
  \/ \E n \in RawFullNames, u \in RawUsernames, p \in {"demo"} : registerSubmit(n, u, p)
  \/ \E u \in {"demo"} : loginSubmit(u, u)
  \/ logout
  \/ \E p \in Pages : showPage(p)
  \/ \E id \in {"r1"}, t \in RawComments : addComment(id, t)
  \/ \E id \in UserIds : selectChat(id)
  \/ \E t \in RawMessages : sendMessage(t)

ValidSpec == SeedInit /\ [][ValidNext]_vars

\* submissions with an image: the two forms are submitted with a file, the
\* image loads or fails later, and users log out and in meanwhile
ImageNext ==
  \/ initApp
  \/ \E u \in Usernames : loginSubmit(u, u)
  \/ logout
  \/ \E p \in {"timeline", "profile"} : showPage(p)
  \/ \E t \in RecipeTitles : newRecipeSubmitFile(t)
  \/ \E n \in FullNames, b \in Bios : editProfileSubmitFile(n, b)
  \/ \E f \in {"recipe", "profile"} : imageLoaded(f)
  \/ \E f \in {"recipe", "profile"} : imageFailed(f)

ImageSpec == SeedInit /\ [][ImageNext]_vars

\* profile edits: both seeded users edit their profile, with and without a
\* photo file, in any order
ProfileNext ==
  \/ initApp
  \/ \E u \in Usernames : loginSubmit(u, u)
  \/ logout
  \/ \E p \in {"timeline", "profile"} : showPage(p)
  \/ \E n \in FullNames, b \in Bios \cup {""} : editProfileSubmit(n, b)
  \/ \E n \in FullNames, b \in Bios : editProfileSubmitFile(n, b)
  \/ \E f \in {"profile"} : imageLoaded(f)
  \/ \E f \in {"profile"} : imageFailed(f)

ProfileSpec == SeedInit /\ [][ProfileNext]_vars

\* the store and the app while localStorage.setItem may throw
FullNext ==
  \/ initApp
  \/ \E u \in {"demo"} : loginSubmit(u, u)
  \/ \E t \in RecipeTitles : newRecipeSubmit(t)
  \/ \E t \in RecipeTitles : newRecipeSubmitFull(t)
  \/ \E obj \in ScriptRecords : DataSdkCreate(obj)
  \/ \E obj \in ScriptRecords : DataSdkCreateFull(obj)
  \/ \E obj \in ScriptRecords : DataSdkUpdateFull(obj)
  \/ \E id \in {"r1", "f1"} : DataSdkDeleteFull(id)
  \/ DataSdkResetFull

FullSpec == SeedInit /\ [][FullNext]_vars

\* a second observer subscribes and holds on to the array it is given
KeeperInit ==
  /\ "keeper" \notin Range(subscribers)
  /\ Finish(init(Store, "keeper"), heap, Call("init", "api", [id |-> "keeper"]),
            currentUser, currentPage)

\* the page with that observer: the handlers that change a record in place,
\* and the store's operations called by another script
SnapNext ==
  \/ initApp
  \/ KeeperInit
  \/ \E u \in Usernames, p \in Passwords : loginSubmit(u, p)
  \/ logout
  \/ \E p \in {"timeline", "profile"} : showPage(p)
  \/ \E id \in {"r1"} : toggleLike(id)
  \/ \E id \in {"r1"}, t \in CommentTexts : addComment(id, t)
  \/ \E n \in FullNames, b \in Bios : editProfileSubmit(n, b)
  \/ \E obj \in ScriptRecords : DataSdkCreate(obj)
  \/ \E obj \in ScriptRecords : DataSdkUpdate(obj)
  \/ \E id \in {"r1"} : DataSdkDelete(id)
  \/ DataSdkReset

SnapSpec == Init /\ [][SnapNext]_vars

\* calls of the public API window.elementSdk by any script of the page
CfgDefaults == {<<>>, [font_size |-> 12, theme |-> "dark"]}
CfgCallbacks == {"cb2", "null"}
CfgPartials == {[font_size |-> 16], [extra |-> "y"],
                [app_title |-> "Cocina", font_size |-> 18]}

ElementSdkInit(defaults, cb) ==
  /\ defaults \in CfgDefaults \cup {defaultConfig}
  /\ FinishUI(noCall(Store), heap,
              Call("elementInit", "api", [id |-> cb, defaults |-> defaults]),
              Session(currentUser, currentPage, selectedChatUser, "", <<>>))
  /\ cfgDone(elementInit(Element, defaults, cb))
  /\ themeIdle

ElementSdkSetConfig(partial) ==
  /\ partial \in CfgPartials
  /\ FinishUI(noCall(Store), heap, Call("setConfig", "api", [id |-> "", partial |-> partial]),
              Session(currentUser, currentPage, selectedChatUser, "", <<>>))
  /\ cfgDone(setConfig(Element, partial))
  /\ themeIdle

\* the page loads on any content of the two slots; initApp and other scripts
\* use the preference store
CfgInit == \E slot \in InitialSlots, cslot \in InitialCfgSlots : Loaded(slot, cslot)

CfgNext ==
  \/ initApp
  \/ \E d \in CfgDefaults, cb \in CfgCallbacks : ElementSdkInit(d, cb)
  \/ \E partial \in CfgPartials : ElementSdkSetConfig(partial)

CfgSpec == CfgInit /\ [][CfgNext]_vars

\* the page of part_000: the theme is toggled while the app is used, the
\* preferences are set and the page is loaded again
ThemeNext ==
  \/ initAppTheme
  \/ toggleTheme
  \/ pageReload
  \/ \E u \in {"demo"} : loginSubmit(u, u)
  \/ logout
  \/ \E p \in {"timeline", "profile"} : showPage(p)
  \/ \E id \in {"r1"} : toggleLike(id)
  \/ \E partial \in {[font_size |-> 16]} : ElementSdkSetConfig(partial)

ThemeSpec == SeedInit /\ [][ThemeNext]_vars

-----------------------------------------------------------------------------
(* Properties *)

\* the records of the in-memory collection, in order
Collection == [i \in 1..Len(data) |-> heap[data[i]]]

\* the subscribers that have an onDataChanged, in registration order
Observers == SelectSeq(subscribers, HasCallback)

HasId(id) == \E i \in 1..Len(data) : Str(heap[data[i]], "id") = id

\* the last call changed (or rewrote) the collection
Mutating ==
  call.op \in {"create", "delete", "reset"} \/ (call.op = "update" /\ result.isOk)

\* the deliveries to handler h among deliv; Told: those the last call made
ToldIn(deliv, h) == {i \in 1..Len(deliv) : deliv[i].h = h}
Told(h) == ToldIn(delivered, h)

\* C1: update with an id that no record of the collection has returns
\* {isOk: false, error: "not_found"}, leaves the in-memory and the persisted
\* collection as they were and calls no observer.
C1_UpdateMissingNotFound ==
  [][ (call'.op = "update" /\ ~HasId(Str(call'.arg, "id")))
        => /\ result' = [isOk |-> FALSE, error |-> "not_found", data |-> 0]
           /\ Collection' = Collection
           /\ storage' = storage
           /\ delivered' = <<>> ]_vars

C1_Witness ==
  /\ call.op = "update" /\ ~result.isOk
  /\ Len(data) > 0 /\ Observers # <<>>

\* C2: after every call the storage slot holds the records of the in-memory
\* collection, same order and same field values, also when the app changed a
\* record in place before calling update.
C2_PersistedEqualsMemory ==
  storage.kind = "json" /\ storage.value = Collection

C2_Witness ==
  /\ call.by = "toggleLike" /\ result.isOk
  /\ call.arg.likes = 2 /\ Len(call.arg.likedBy) = 2

\* C3: with dataHandler registered, a create, a successful update, a delete or
\* a reset calls dataHandler exactly once, with a snapshot of as many records
\* as the collection has after the call.
C3_OneNotificationPerMutation ==
  (Mutating /\ "dataHandler" \in Range(subscribers))
    => /\ Cardinality(Told("dataHandler")) = 1
       /\ \A i \in Told("dataHandler") : Len(delivered[i].snap) = Len(data)

C3_Witness ==
  /\ call.op = "create" /\ Len(data) = MaxLen
  /\ Cardinality(Told("dataHandler")) = 1

\* C4: delete(id) leaves the collection without every record whose id is id,
\* the others in their order; it saves and notifies also when nothing was
\* removed, reports no error, and isOk is true exactly when a record was
\* removed; with an absent id the collection is unchanged.
C4_DeleteRemovesAllMatches ==
  [][ call'.op = "delete"
        => LET id == call'.arg.id
               kept == SelectSeq(Collection, LAMBDA rec : Str(rec, "id") # id)
           IN  /\ Collection' = kept
               /\ storage' = [kind |-> "json", value |-> kept]
               /\ Len(delivered') = Len(Observers)
               /\ \A i \in 1..Len(delivered') : delivered'[i].snap = data'
               /\ result'.error = ""
               /\ result'.isOk = (Len(kept) < Len(Collection))
               /\ (~HasId(id) => Collection' = Collection /\ ~result'.isOk) ]_vars

C4_Witness ==
  /\ call.op = "delete" /\ call.arg.id = "r1" /\ result.isOk
  /\ Collection = <<u1, u2, f1>>
  /\ delivered # <<>>

\* C5 as stated: init, create, delete and reset return isOk true whatever the
\* argument and the collection.
C5_AllButUpdateSucceed ==
  call.op \in {"init", "create", "delete", "reset"} => result.isOk

\* C5 amended: only update with a missing id reports an error (not_found); init,
\* create and reset return isOk true; delete reports no error, and its isOk is
\* false exactly when no record has the id.
C5_OnlyUpdateReportsError ==
  [][ /\ call'.op \in {"init", "create", "reset"}
           => result'.isOk /\ result'.error = ""
      /\ call'.op = "delete"
           => result'.error = "" /\ (result'.isOk <=> HasId(call'.arg.id))
      /\ call'.op = "update"
           => /\ result'.isOk <=> HasId(Str(call'.arg, "id"))
              /\ result'.error = IF result'.isOk THEN "" ELSE "not_found" ]_vars

C5_Witness ==
  call.op = "delete" /\ ~result.isOk /\ result.error = ""

\* C6: a handler is registered at most once, whatever the number of init calls
\* with it, so every init and every mutation calls each observer exactly once.
C6_SubscribeOnce ==
  /\ \A i, j \in 1..Len(subscribers) : subscribers[i] = subscribers[j] => i = j
  /\ (Mutating \/ call.op = "init")
       => \A h \in Range(Observers) : Cardinality(Told(h)) = 1

C6_Witness ==
  /\ call.op = "init" /\ call.arg.id = "h1"
  /\ Len(subscribers) >= 2 /\ subscribers[1] = "h1"
  /\ Cardinality(Told("h1")) = 1

\* C7: init with an observer that was not registered delivers to it, during
\* the call, one snapshot: the records of the collection at that moment, in
\* order.
C7_FirstSnapshotOnInit ==
  [][ (call'.op = "init" /\ HasCallback(call'.arg.id)
         /\ call'.arg.id \notin Range(subscribers))
        => /\ Cardinality(ToldIn(delivered', call'.arg.id)) = 1
           /\ \A i \in ToldIn(delivered', call'.arg.id) : delivered'[i].snap = data'
           /\ Collection' = Collection
           /\ result'.isOk ]_vars

C7_Witness ==
  /\ call.op = "init" /\ call.arg.id = "h1"
  /\ subscribers[Len(subscribers)] = "h1"
  /\ Collection = <<ApiUser>>
  /\ \E i \in Told("h1") : Len(delivered[i].snap) = 1

\* C8: create(obj) appends obj, whatever its id: the earlier records keep
\* their values and order, the collection grows by one, is saved, every
\* observer is called with it, and the result is isOk with the stored object.
C8_CreateAppends ==
  [][ call'.op = "create"
        => /\ Collection' = Append(Collection, call'.arg)
           /\ storage' = [kind |-> "json", value |-> Collection']
           /\ Len(delivered') = Len(Observers)
           /\ \A i \in 1..Len(delivered') : delivered'[i].snap = data'
           /\ result'.isOk
           /\ result'.data = data'[Len(data')] ]_vars

C8_Witness ==
  /\ call.op = "create"
  /\ \E i \in 1..(Len(data) - 1) : Str(heap[data[i]], "id") = Str(call.arg, "id")

\* C9: a successful update(obj) puts obj, whole, at the position of the first
\* record with obj's id; size, order and every other record stay.
C9_UpdateReplacesWhole ==
  [][ (call'.op = "update" /\ result'.isOk)
        => /\ HasId(Str(call'.arg, "id"))
           /\ LET i == CHOOSE k \in 1..Len(data) :
                         /\ Str(heap[data[k]], "id") = Str(call'.arg, "id")
                         /\ \A j \in 1..(k - 1) :
                              Str(heap[data[j]], "id") # Str(call'.arg, "id")
              IN  Collection' = [Collection EXCEPT ![i] = call'.arg] ]_vars

C9_Witness ==
  /\ call.op = "update" /\ result.isOk /\ call.arg = ApiClash
  /\ Collection = <<u1, u2, f1, ApiClash>>

\* C10: a mutating call calls, before it returns, every observer once, in
\* registration order, each with an array of its own holding the collection as
\* it is after the mutation.
C10_BroadcastInOrder ==
  Mutating
    => /\ Len(delivered) = Len(Observers)
       /\ \A i \in 1..Len(delivered) :
            /\ delivered[i].h = Observers[i]
            /\ delivered[i].snap = data
            /\ delivered[i].ref # 0
       /\ \A i, j \in 1..Len(delivered) :
            delivered[i].ref = delivered[j].ref => i = j

C10_Witness ==
  /\ call.op = "reset" /\ Len(delivered) = 2
  /\ delivered[1].h = "h1" /\ delivered[2].h = "dataHandler"

\* the records of the array the keeper holds, in order
HeldContent == [i \in 1..Len(held[1]) |-> heap[held[1][i]]]

\* C11: once a snapshot is delivered, its content (its list of records and
\* their field values) is changed by no later store operation and no later app
\* action.
C11_SnapshotImmutable ==
  [][ held # <<>> => (held' # <<>> /\ HeldContent' = HeldContent) ]_vars

\* C12: when a slot is missing or holds text that is not JSON, the scripts
\* run to their end: the record store starts as from an empty collection (which
\* seedIfEmpty then seeds and saves), the configuration starts empty, no toast
\* is shown, and initApp goes through: dataSdk.init succeeds and hands
\* dataHandler the collection, elementSdk.init applies and saves the defaults.
C12_LoadNeverFails ==
  /\ call.by = "load"
  /\ [][ call.by = "load"
          => /\ call.arg.id \in {"missing", "garbage"}
                  => Collection = Seed /\ storage = [kind |-> "json", value |-> Seed]
             /\ call.arg.cfg \in {"missing", "garbage"} => config = <<>>
             /\ toast = ""
             /\ call'.by = "initApp"
                  => /\ result'.isOk /\ toast' = ""
                     /\ Cardinality(ToldIn(delivered', "dataHandler")) = 1
                     /\ \A i \in 1..Len(delivered') : delivered'[i].snap = data'
                     /\ Collection' = Collection /\ allData' = data'
                     /\ call.arg.cfg \in {"missing", "garbage"}
                          => /\ config' = defaultConfig
                             /\ cfgStorage' = [kind |-> "json", value |-> defaultConfig]
                             /\ applied' = <<[cb |-> "onConfigChange",
                                              config |-> defaultConfig]>> ]_vars

C12_Witness ==
  /\ call.by = "load" /\ call.arg.id = "garbage" /\ call.arg.cfg = "garbage"
  /\ Collection = Seed /\ config = <<>> /\ cfgStorage.kind = "garbage"

\* C13: reset() leaves the collection empty, saves the empty collection and
\* calls every observer, in order, with an empty snapshot, whatever the
\* collection held; it returns isOk.
C13_ResetEmpties ==
  [][ call'.op = "reset"
        => /\ data' = <<>> /\ Collection' = <<>>
           /\ storage' = [kind |-> "json", value |-> <<>>]
           /\ Len(delivered') = Len(Observers)
           /\ \A i \in 1..Len(delivered') :
                delivered'[i].h = Observers[i] /\ delivered'[i].snap = <<>>
           /\ result'.isOk /\ result'.error = "" ]_vars

C13_Witness ==
  /\ call.op = "reset" /\ data = <<>> /\ storage.value = <<>>
  /\ "dataHandler" \in Range(subscribers) /\ allData = <<>>
  /\ \E i \in 1..Len(delivered) : delivered[i].h = "dataHandler" /\ delivered[i].snap = <<>>

\* the mapping the slot "recetagram_config" holds, empty when it holds none
Persisted == IF cfgStorage.kind = "json" THEN cfgStorage.value ELSE <<>>

\* the last step called elementSdk.init (initApp does, with the app's defaults
\* and callback)
ElementInitCalled(c) == c.op = "elementInit" \/ c.by = "initApp"
DefaultsOf(c) == IF c.by = "initApp" THEN defaultConfig ELSE c.arg.defaults
CallbackOf(c) == IF c.by = "initApp" THEN "onConfigChange" ELSE c.arg.id

\* C14: elementSdk.init(defaults, onChange) makes the configuration the
\* defaults overridden key by key by what was persisted (a persisted value
\* wins, a persisted key the defaults lack is kept), saves exactly that
\* mapping, stores the callback and calls it exactly once with that mapping.
C14_InitMergesPersistedOverDefaults ==
  [][ ElementInitCalled(call')
        => /\ DOMAIN config' = DOMAIN DefaultsOf(call') \cup DOMAIN Persisted
           /\ \A k \in DOMAIN config' :
                config'[k] = IF k \in DOMAIN Persisted THEN Persisted[k]
                             ELSE DefaultsOf(call')[k]
           /\ cfgStorage' = [kind |-> "json", value |-> config']
           /\ onConfigChangeCb' = CallbackOf(call')
           /\ applied' = IF CallbackOf(call') = "null" THEN <<>>
                         ELSE <<[cb |-> CallbackOf(call'), config |-> config']>> ]_vars

C14_Witness ==
  /\ call.by = "initApp"
  /\ config = [app_title |-> "RecetaGram", font_size |-> 18, extra |-> "x"]
  /\ cfgStorage.value = config
  /\ applied = <<[cb |-> "onConfigChange", config |-> config]>>

\* C15: setConfig(partial) sets every key of partial, leaves every other key
\* of the configuration as it was, saves the whole resulting mapping and calls
\* the stored callback once with it; after init and after every setConfig the
\* saved mapping equals the configuration in memory.
C15_SetConfigMergesAndPersists ==
  [][ /\ call'.op = "setConfig"
           => /\ DOMAIN config' = DOMAIN config \cup DOMAIN call'.arg.partial
              /\ \A k \in DOMAIN config' :
                   config'[k] = IF k \in DOMAIN call'.arg.partial
                                THEN call'.arg.partial[k] ELSE config[k]
              /\ onConfigChangeCb' = onConfigChangeCb
              /\ applied' = IF onConfigChangeCb = "null" THEN <<>>
                            ELSE <<[cb |-> onConfigChangeCb, config |-> config']>>
      /\ (call'.op = "setConfig" \/ ElementInitCalled(call'))
           => cfgStorage' = [kind |-> "json", value |-> config'] ]_vars

C15_Witness ==
  /\ call.op = "setConfig" /\ call.arg.partial = [extra |-> "y"]
  /\ config = [app_title |-> "RecetaGram", font_size |-> 18, extra |-> "y"]
  /\ cfgStorage.value = config
  /\ applied = <<[cb |-> "onConfigChange", config |-> config]>>

\* the render routine of a page
PageRoutine ==
  [timeline |-> "renderTimeline", profile |-> "renderProfile",
   search |-> "renderSearchResults", messages |-> "renderConversations"]

\* C16: the page is one of auth, timeline, profile, search, messages and
\* starts as auth; showPage(target) ends on target and runs exactly the render
\* routine of a target other than auth; entering auth (logout) runs no render;
\* a successful login enters timeline with its render; the page changes on no
\* other step.
C16_NavigationStateMachine ==
  /\ currentPage = "auth"
  /\ [][ /\ currentPage' \in {"auth"} \cup DOMAIN PageRoutine
         /\ call'.by = "showPage"
              => /\ currentPage' = call'.arg.id
                 /\ rendered' = <<[by |-> "showPage", routine |-> PageRoutine[call'.arg.id]]>>
         /\ call'.by = "logout" => currentPage' = "auth" /\ rendered' = <<>>
         /\ call'.by = "login"
              => \/ /\ currentUser' # 0 /\ currentPage' = "timeline"
                    /\ rendered' = <<[by |-> "showPage", routine |-> "renderTimeline"]>>
                 \/ /\ currentUser' = 0 /\ currentPage' = "auth" /\ rendered' = <<>>
         /\ currentPage' # currentPage => call'.by \in {"showPage", "login", "logout"}
        ]_vars

C16_Witness ==
  /\ call.by = "showPage" /\ currentPage = "messages" /\ selectedChatUser # 0
  /\ rendered = <<[by |-> "showPage", routine |-> "renderConversations"]>>

\* C17: logout, from any page and with or without a chat partner selected,
\* ends on the auth page with currentUser and selectedChatUser null; it calls
\* no store operation and leaves the collection and the slot as they were.
C17_LogoutClearsSession ==
  [][ call'.by = "logout"
        => /\ currentPage' = "auth" /\ currentUser' = 0 /\ selectedChatUser' = 0
           /\ call'.op = "none" /\ delivered' = <<>>
           /\ Collection' = Collection /\ storage' = storage ]_vars

C17_Witness ==
  /\ call.by = "logout" /\ currentPage = "auth"
  /\ currentUser = 0 /\ selectedChatUser = 0
  /\ \E i \in 1..Len(data) : Str(heap[data[i]], "type") = "message"

\* the routines run by the observer during the last step, in order
ObserverRan == 
  LET mine == SelectSeq(rendered, LAMBDA x : x.by = "onDataChanged")
  IN  [i \in 1..Len(mine) |-> mine[i].routine]

\* what the observer is to run on a page, with or without a chat selected
ObserverRoutines(page, sel) ==
  IF page = "auth" THEN <<>>
  ELSE IF page = "messages"
       THEN IF sel # 0 THEN <<"renderConversations", "renderChat">>
            ELSE <<"renderConversations">>
  ELSE <<PageRoutine[page]>>

\* C18: each time the store notifies dataHandler, allData becomes the
\* delivered snapshot and the observer runs the routine of the page shown and
\* no other: on messages renderConversations and, only with a chat selected,
\* renderChat; on auth nothing.  The observer runs nothing when the store
\* notifies nobody.
C18_ObserverRendersActivePage ==
  [][ /\ ToldIn(delivered', "dataHandler") = {} => ObserverRan' = <<>>
      /\ ToldIn(delivered', "dataHandler") # {}
           => /\ Cardinality(ToldIn(delivered', "dataHandler")) = 1
              /\ \A i \in ToldIn(delivered', "dataHandler") : allData' = delivered'[i].snap
              /\ allData' = data'
              /\ ObserverRan' = ObserverRoutines(currentPage, selectedChatUser)
              /\ currentPage' = currentPage ]_vars

C18_Witness ==
  /\ call.op = "delete" /\ call.by = "api"
  /\ currentPage = "messages" /\ selectedChatUser # 0
  /\ ObserverRan = <<"renderConversations", "renderChat">>

\* the handlers that write to the store
WriteHandlers ==
  {"sendMessage", "editProfile", "toggleLike", "addComment", "newRecipe",
   "deleteRecipe", "sendFriendRequest"}

\* the last step was a handler's store write
Wrote == call.by \in WriteHandlers /\ call.op # "none"

\* how often a routine ran during the last step
TimesRan(routine) == Len(SelectSeq(rendered, LAMBDA x : x.routine = routine))

\* the routines a handler ran itself during the last step, in order
HandlerRan == 
  LET own == SelectSeq(rendered, LAMBDA x : x.by = "handler")
  IN  [i \in 1..Len(own) |-> own[i].routine]

\* C19 as stated: a handler's successful store write runs each render routine
\* of the page shown exactly once.
C19_OneRenderPerWrite ==
  (Wrote /\ result.isOk)
    => \A rt \in Range(ObserverRoutines(currentPage, selectedChatUser)) : TimesRan(rt) = 1

\* C19 amended: a handler's successful store write notifies the observer
\* exactly once, and the observer runs the routines of the page shown once;
\* toggle like, add comment, create recipe, delete recipe and add friend run
\* nothing more, send message then calls renderChat and renderConversations
\* itself and a profile edit calls renderProfile itself.
C19_OneNotificationPerWrite ==
  (Wrote /\ result.isOk)
    => /\ Cardinality(ToldIn(delivered, "dataHandler")) = 1
       /\ ObserverRan = ObserverRoutines(currentPage, selectedChatUser)
       /\ HandlerRan = IF call.by = "sendMessage"
                           THEN <<"renderChat", "renderConversations">>
                       ELSE IF call.by = "editProfile" THEN <<"renderProfile">>
                       ELSE <<>>
       /\ Len(rendered) = Len(ObserverRan) + Len(HandlerRan)

C19_Witness ==
  /\ call.by = "sendMessage" /\ call.op = "create" /\ result.isOk
  /\ TimesRan("renderChat") = 2 /\ TimesRan("renderConversations") = 2

\* C20: when toggleLike runs twice in a row on a recipe for the same user,
\* the recipe handed to the store by the second run, which the store then
\* holds, has the like count and the set of likers the recipe had before the
\* first run.
C20_ToggleLikeTwiceRestores ==
  [][ ( /\ call.by = "toggleLike" /\ result.isOk
        /\ call'.by = "toggleLike" /\ result'.isOk
        /\ call'.was = call.arg
        /\ currentUser # 0 /\ currentUser' # 0
        /\ Str(heap'[currentUser'], "id") = Str(heap[currentUser], "id") )
      => /\ likesOf(call'.arg) = likesOf(call.was)
         /\ Range(likedByArrayOf(call'.arg)) = Range(likedByArrayOf(call.was))
         /\ \E i \in 1..Len(data') : heap'[data'[i]] = call'.arg ]_vars

C20_Witness ==
  /\ call.by = "toggleLike" /\ result.isOk /\ currentUser # 0
  /\ Str(heap[currentUser], "id") = "u_ana"
  /\ Range(likedByArrayOf(call.was)) = {"u_demo", "u_ana"} /\ likesOf(call.was) = 2
  /\ Range(likedByArrayOf(call.arg)) = {"u_demo"} /\ likesOf(call.arg) = 1

\* the recipes of the collection
Recipes == {heap[data[i]] : i \in {j \in 1..Len(data) : Str(heap[data[j]], "type") = "recipe"}}

\* C21: every recipe's like count is the number of distinct user ids in its
\* liker set (no id is listed twice) and is not negative.
C21_LikesCountLikers ==
  \A recipe \in Recipes :
    /\ likesOf(recipe) = Cardinality(Range(likedByArrayOf(recipe)))
    /\ Len(likedByArrayOf(recipe)) = Cardinality(Range(likedByArrayOf(recipe)))
    /\ likesOf(recipe) >= 0

C21_Witness ==
  /\ call.by = "toggleLike"
  /\ \E recipe \in Recipes :
       /\ Str(recipe, "id") \in Range(GenIds)
       /\ likesOf(recipe) = 2
       /\ Range(likedByArrayOf(recipe)) = {"u_demo", "u_ana"}
  /\ \E recipe \in Recipes : Str(recipe, "id") = "r1" /\ likesOf(recipe) = 0

\* the comment list of the recipe with this id, <<>> when it has none
CommentsOf(hp, d, id) ==
  LET a == find(d, {b \in Range(d) : Str(hp[b], "id") = id /\ Str(hp[b], "type") = "recipe"})
  IN  IF a # 0 /\ "comments" \in DOMAIN hp[a] THEN hp[a].comments ELSE <<>>

HasRecipe(hp, d, id) ==
  \E b \in Range(d) : Str(hp[b], "id") = id /\ Str(hp[b], "type") = "recipe"

IsPrefix(s, t) == Len(s) <= Len(t) /\ SubSeq(t, 1, Len(s)) = s

\* C22: in every step the comment list of a recipe that is still there has
\* the list it had before as a prefix; a successful addComment leaves the
\* old list followed by one comment whose author is the current user's
\* username.
C22_CommentsAppendOnly ==
  [][ /\ \A id \in RecipeIds :
           (HasRecipe(heap, data, id) /\ HasRecipe(heap', data', id))
             => IsPrefix(CommentsOf(heap, data, id), CommentsOf(heap', data', id))
      /\ (call'.by = "addComment" /\ call'.op = "update" /\ result'.isOk)
           => /\ currentUser # 0
              /\ \E text \in CommentTexts :
                   CommentsOf(heap', data', call'.arg.id)
                     = Append(CommentsOf(heap, data, call'.arg.id),
                              [author |-> Str(heap[currentUser], "username"),
                               text |-> text]) ]_vars

C22_Witness ==
  /\ call.by = "addComment" /\ call.op = "update" /\ result.isOk
  /\ CommentsOf(heap, data, "r1")
       = <<[author |-> "demo", text |-> "Brutal"], [author |-> "ana", text |-> "rico"]>>

\* the user records of the collection, by position
UserAt == {i \in 1..Len(data) : Str(heap[data[i]], "type") = "user"}

UniqueUsernames ==
  \A i, j \in UserAt :
    Str(heap[data[i]], "username") = Str(heap[data[j]], "username") => i = j

\* C23: no two user records have the same username, and a registration
\* whose trimmed username is that of a user record creates no record and
\* calls no store operation.
C23_UsernamesUnique ==
  /\ UniqueUsernames
  /\ [][ /\ UniqueUsernames'
         /\ \A raw \in RawUsernames :
              ( /\ call'.by = "register"
                /\ call'.arg.id = trim(raw) \/ Str(call'.arg, "username") = trim(raw)
                /\ \E i \in UserAt : Str(heap[data[i]], "username") = trim(raw) )
              => /\ call'.op = "none"
                 /\ Collection' = Collection /\ storage' = storage ]_vars

C23_Witness ==
  /\ call.by = "register" /\ call.op = "none" /\ call.arg.id = "eva"
  /\ toast = "El nombre de usuario ya existe"
  /\ \E i \in UserAt : /\ Str(heap[data[i]], "username") = "eva"
                       /\ Str(heap[data[i]], "id") \in Range(GenIds)

\* the friendship records of the collection, by position
FriendshipAt == {i \in 1..Len(data) : Str(heap[data[i]], "type") = "friendship"}

\* the two users of a friendship, in either order
PairOf(f) == {Str(f, "requesterId"), Str(f, "receiverId")}

OneFriendshipPerPair ==
  \A i, j \in FriendshipAt : PairOf(heap[data[i]]) = PairOf(heap[data[j]]) => i = j

\* C24: no two friendship records join the same unordered pair of users, and
\* a call of sendFriendRequest for a user who has a friendship with the
\* current user, in either direction, calls no store operation.
C24_OneFriendshipPerPair ==
  /\ OneFriendshipPerPair
  /\ [][ /\ OneFriendshipPerPair'
         /\ ( /\ call'.by = "sendFriendRequest" /\ currentUser # 0
              /\ \E i \in FriendshipAt :
                   PairOf(heap[data[i]])
                     = {Str(heap[currentUser], "id"),
                        IF call'.op = "none" THEN call'.arg.id
                        ELSE Str(call'.arg, "receiverId")} )
             => /\ call'.op = "none"
                /\ Collection' = Collection /\ storage' = storage ]_vars

C24_Witness ==
  /\ call.by = "sendFriendRequest" /\ call.op = "none" /\ call.arg.id = "u_demo"
  /\ currentUser # 0 /\ Str(heap[currentUser], "id") = "u_ana"
  /\ \E i \in FriendshipAt :
       /\ Str(heap[data[i]], "id") \in Range(GenIds)
       /\ Str(heap[data[i]], "requesterId") = "u_demo"
       /\ Str(heap[data[i]], "receiverId") = "u_ana"

\* the records of the collection with this id
WithId(hp, d, id) == {i \in 1..Len(d) : Str(hp[d[i]], "id") = id}

\* the current user's own recipes with this id
OwnRecipes(id) ==
  {i \in WithId(heap, data, id) :
     /\ Str(heap[data[i]], "type") = "recipe"
     /\ currentUser # 0
     /\ Str(heap[data[i]], "authorId") = Str(heap[currentUser], "id")}

\* C25: a call of deleteRecipe(id) calls delete only when the collection has
\* a recipe with this id whose author is the current user and the user
\* confirms, and then the records removed are recipes of the current user;
\* in every other case it calls no store operation and collection and slot
\* stay as they are.  No step of the app removes a user, a friendship or a
\* message.
C25_DeleteOnlyOwnRecipe ==
  [][ /\ call'.by = "deleteRecipe"
          => IF call'.arg.confirmed /\ OwnRecipes(call'.arg.id) # {}
             THEN /\ call'.op = "delete" /\ result'.isOk
                  /\ WithId(heap, data, call'.arg.id) = OwnRecipes(call'.arg.id)
                  /\ Collection' = SelectSeq(Collection,
                                             LAMBDA x : Str(x, "id") # call'.arg.id)
             ELSE /\ call'.op = "none"
                  /\ Collection' = Collection /\ storage' = storage
      /\ call'.by \notin {"api", "load"}
          => \A i \in 1..Len(data) :
               Str(heap[data[i]], "type") \in {"user", "friendship", "message"}
                 => \E j \in 1..Len(data') :
                      /\ Str(heap'[data'[j]], "id") = Str(heap[data[i]], "id")
                      /\ Str(heap'[data'[j]], "type") = Str(heap[data[i]], "type") ]_vars

C25_Witness ==
  /\ call.by = "deleteRecipe" /\ call.op = "delete" /\ result.isOk
  /\ call.arg.id \in Range(GenIds) /\ toast = "Receta eliminada"
  /\ WithId(heap, data, call.arg.id) = {}
  /\ WithId(heap, data, "r1") # {}

\* C26: a registration whose username a user record has, a comment whose
\* trimmed text is empty and a message whose trimmed text is empty call no
\* store operation, leave collection and slot as they are, and show a toast.
C26_InvalidInputRejectedWithNotice ==
  [][ ( \/ /\ call'.by = "register"
            /\ \E i \in UserAt : Str(heap[data[i]], "username") = call'.input
        \/ /\ call'.by \in {"addComment", "sendMessage"}
            /\ call'.input = "" )
      => /\ call'.op = "none"
         /\ Collection' = Collection /\ storage' = storage
         /\ toast' # "" ]_vars

\* the submit button of a form
ButtonOf(form) == IF form = "recipe" THEN "submitRecipeBtn" ELSE "submitEditProfileBtn"
ReadyLabel(form) == IF form = "recipe" THEN "Publicar Receta" ELSE "Guardar Cambios"

\* C27: when the image of a recipe submission or of a profile edit fails,
\* no store operation is called, collection and slot and the current user's
\* record stay as they are, the form's submit button is enabled again with
\* its ready label, and a toast is shown.
C27_ImageFailureAborts ==
  [][ call'.by = "imageFailed"
        => /\ call'.op = "none" /\ delivered' = <<>>
           /\ Collection' = Collection /\ storage' = storage
           /\ currentUser # 0 => /\ currentUser' # 0
                                 /\ heap'[currentUser'] = heap[currentUser]
           /\ buttons[ButtonOf(call'.tag.form)].disabled
           /\ buttons'[ButtonOf(call'.tag.form)] = Ready(ReadyLabel(call'.tag.form))
           /\ toast' # "" ]_vars

C27_Witness ==
  /\ call.by = "imageFailed" /\ call.tag.form = "profile"
  /\ currentUser # 0 /\ Str(heap[currentUser], "id") = call.tag.submitter
  /\ Str(heap[currentUser], "fullName") \notin FullNames
  /\ buttons.submitEditProfileBtn = Ready("Guardar Cambios")
  /\ buttons.submitRecipeBtn.disabled

\* C29: when the image of a submission has loaded, the recipe created has the
\* user who submitted the form as its author, and the user record updated is
\* that of the user who submitted the form, whoever is logged in by then.
C29_CompletionActsForSubmitter ==
  [][ (call'.by = "imageLoaded" /\ call'.op # "none")
        => IF call'.tag.form = "recipe"
           THEN Str(call'.arg, "authorId") = call'.tag.submitter
           ELSE Str(call'.arg, "id") = call'.tag.submitter ]_vars

\* C28: a create, update, delete or reset during which the storage write
\* throws fails for its caller and leaves the collection as it was before the
\* call, equal to the persisted collection and, once the app has started, to
\* the observer's snapshot.
C28_FailedWriteChangesNothing ==
  [][ result'.error = "QuotaExceededError"
        => /\ ~result'.isOk
           /\ Collection' = Collection
           /\ storage'.kind = "json" /\ storage'.value = Collection'
           /\ AppStarted => allData' = data' ]_vars

\* C30: once initApp has run, allData holds the records of the store's
\* collection, the same objects in the same order.
C30_SnapshotEqualsCollection ==
  AppStarted => allData = data

\* C31: the page is auth exactly when currentUser is null, a chat partner
\* is selected only while a user is logged in, and a step that ran a render
\* routine (from the observer, showPage or a handler; the notification of
\* startup included) ends with a logged-in user.
C31_AuthIffNoUser ==
  /\ currentPage = "auth" <=> currentUser = 0
  /\ selectedChatUser # 0 => currentUser # 0
  /\ rendered # <<>> => currentUser # 0

C31_Witness ==
  /\ call.by = "logout" /\ currentUser = 0 /\ currentPage = "auth"
  /\ selectedChatUser = 0 /\ rendered = <<>>
  /\ \E i \in 1..Len(data) : Str(heap[data[i]], "id") \in Range(GenIds)

\* C32: after elementSdk.init and after every setConfig the property
\* window.elementSdk.config has the keys and values of the effective
\* configuration, which is the mapping passed to the change callback and the
\* mapping saved in the slot.
C32_PublicConfigIsEffective ==
  [][ (call'.op = "setConfig" \/ ElementInitCalled(call'))
        => /\ elementSdkConfig' = config'
           /\ elementSdkConfig' = Persisted'
           /\ \A i \in 1..Len(applied') : applied'[i].config = elementSdkConfig' ]_vars

\* the records the slot "recetagram_data" holds, none when it holds no array
Saved == IF storage.kind = "json" THEN storage.value ELSE <<>>

\* C33: a page load on a slot that is missing or unparsable, and a page load
\* on a slot that holds an empty array (after reset, or after every record
\* was deleted), ends with the four demo records u1, u2, f1, r1 as the
\* collection and saved in the slot; a page load on a slot that holds one or
\* more records ends with exactly those records and the slot as it was.  The
\* collection is never empty after a page load.
C33_SeedsExactlyWhenEmpty ==
  /\ call.arg.id \in {"missing", "garbage"}
       => Collection = Seed /\ storage = [kind |-> "json", value |-> Seed]
  /\ [][ call'.by = "reload"
          => /\ Saved = <<>>
                  => Collection' = Seed /\ storage' = [kind |-> "json", value |-> Seed]
             /\ Saved # <<>> => Collection' = Saved /\ storage' = storage
             /\ Collection' # <<>> /\ Saved' = Collection' ]_vars

C33_Witness ==
  /\ call.by = "reload" /\ call.arg.id = "json" /\ call.arg.loaded = 0
  /\ Collection = Seed /\ storage = [kind |-> "json", value |-> Seed]
  /\ subscribers = <<>>

\* the user records of the snapshot that have the username and the password
HavingCredentials(hp, ad, username, password) ==
  {a \in Range(ad) : /\ Str(hp[a], "type") = "user"
                     /\ Str(hp[a], "username") = username
                     /\ Str(hp[a], "password") = password}

\* the login step that follows entered the credentials of the user record
\* the registration step before it created
LoginAsRegistered ==
  /\ call.by = "register" /\ call.op = "create" /\ result.isOk
  /\ call'.by = "login"
  /\ trim(call'.arg.username) = call.arg.username
  /\ call'.arg.password = call.arg.password

\* C34: a login succeeds exactly when a user record of the snapshot has the
\* trimmed entered username and the entered password: then currentUser is
\* such a record and the page is timeline, otherwise currentUser and the page
\* are as before; either way no store operation is called.  A registration
\* leaves currentUser and the page as they were, and a login with the
\* registered credentials right after it logs the new user in.
C34_LoginIffCredentialsMatch ==
  [][ /\ (call'.by = "login") =>
           (/\ call'.op = "none" /\ delivered' = <<>>
            /\ Collection' = Collection /\ storage' = storage
            /\ (HavingCredentials(heap, allData, trim(call'.arg.username),
                                  call'.arg.password) # {}) =>
                  (/\ currentUser' # 0 /\ currentPage' = "timeline"
                   /\ \E a \in HavingCredentials(heap, allData, trim(call'.arg.username),
                                                 call'.arg.password) :
                        heap'[currentUser'] = heap[a])
            /\ (HavingCredentials(heap, allData, trim(call'.arg.username),
                                  call'.arg.password) = {}) =>
                  (currentUser' = 0 /\ currentUser = 0 /\ currentPage' = currentPage))
      /\ (call'.by = "register") =>
           (currentUser' = 0 /\ currentUser = 0 /\ currentPage' = currentPage)
      /\ LoginAsRegistered =>
           (/\ currentUser' # 0 /\ currentPage' = "timeline"
            /\ Str(heap'[currentUser'], "id") = call.arg.id) ]_vars

C34_Witness ==
  /\ call.by = "login" /\ call.arg.username = Padded("eva") /\ call.arg.password = "ana"
  /\ currentUser # 0 /\ currentPage = "timeline"
  /\ Str(heap[currentUser], "username") = "eva" /\ Str(heap[currentUser], "id") \in Range(GenIds)

\* the step was a profile edit that reached the store
ProfileEdited ==
  call'.op = "update" /\ call'.by \in {"editProfile", "imageLoaded"}

\* C35: a profile edit leaves the id, the username and the password of the
\* user's record and every other record as they were, and an edit submitted
\* with no photo file leaves the record's profilePhoto as it was.
C35_ProfileEditFrame ==
  [][ ProfileEdited
        => /\ Len(Collection') = Len(Collection)
           /\ \A i \in 1..Len(Collection) :
                IF Str(Collection[i], "id") = Str(call'.arg, "id")
                THEN /\ Str(Collection'[i], "id") = Str(Collection[i], "id")
                     /\ Str(Collection'[i], "username") = Str(Collection[i], "username")
                     /\ Str(Collection'[i], "password") = Str(Collection[i], "password")
                     /\ call'.by = "editProfile"
                          => Str(Collection'[i], "profilePhoto")
                               = Str(Collection[i], "profilePhoto")
                ELSE Collection'[i] = Collection[i] ]_vars

\* the theme loadTheme applies on a slot
ThemeOf(slot) == IF slot.kind = "missing" \/ slot.value = "" THEN "light" ELSE slot.value

\* C36: at startup the theme of the slot "recetagram_theme" is applied, light
\* when the slot is missing; a toggle makes a light page dark and a dark page
\* light and saves the new theme in the slot; the second of two toggles in a
\* row brings back the theme the page had before the first; a toggle leaves
\* the collection, its slot, the configuration and its slot as they were.
C36_ThemeToggle ==
  [][ /\ (call'.by = "initApp") =>
           (/\ dark' = (ThemeOf(themeStorage) = "dark")
            /\ themeStorage.kind = "missing" => ~dark')
      /\ (call'.by = "toggleTheme") =>
           (/\ dark' = ~dark
            /\ themeStorage' = [kind |-> "text", value |-> IF dark' THEN "dark" ELSE "light"]
            /\ Collection' = Collection /\ storage' = storage
            /\ config' = config /\ cfgStorage' = cfgStorage)
      /\ (call.by = "toggleTheme" /\ call'.by = "toggleTheme") =>
           (dark' = call.was.dark) ]_vars

C36_Witness ==
  /\ call.by = "initApp" /\ dark /\ themeStorage = [kind |-> "text", value |-> "dark"]
  /\ config = [app_title |-> "RecetaGram", font_size |-> 16]

====
